---- MODULE Spec2Model ----
\* A state-machine model of the imagery core of omni-visual:
\*   ImageCache              (src/src/omni_visual/cache.py)
\*   the fetch pipeline      (src/src/omni_visual/tools/vision.py)
\*   the cache-aware tools   (src/src/omni_visual/agent.py)
EXTENDS Integers, Sequences, FiniteSets, TLC

VARIABLES
    caches,     \* cache name -> ImageCache object (_cache, _ttl, _max_size, _hits, _misses)
    now,        \* the wall clock read by time.time()
    last,       \* history: the last ImageCache call, its key and what it returned
    api_key,    \* whether GOOGLE_MAPS_API_KEY / MAPS_API_KEY is set in the environment
    frames,     \* one record per get_overhead_view / get_street_view invocation
    hist,       \* history: per observed invocation, the outcomes of its request attempts
    probe,      \* whether the invocations of this run are observed (hist is kept)
    tools,      \* one record per cached_get_overhead_view / cached_get_street_view call
    pano,       \* the explore_panoramic call
    http,       \* the module-level _http_client and the clients made so far
    calc,       \* history: the last call of a function that changes nothing, with what it returned
    logging,    \* the global correlation_filter, the traced_request blocks and the last log record
    session     \* one websocket_endpoint call: its socket, its two tasks and its live_request_queue

cacheVars == <<caches, now, last>>
fetchVars == <<api_key, frames, hist, probe, http>>
serverVars == <<logging, session>>
callerVars == <<tools, pano, calc>>
vars == <<caches, now, last, api_key, frames, hist, probe, tools, pano, http, calc,
         logging, session>>

\* ---------------------------------------------------------------- bounds

MaxTime == 2        \* the clock stops advancing here
MaxCap == 2         \* the largest max_size a constructed cache is given
MaxLookups == 1     \* get calls per cache between two clear calls
MaxMessages == 2    \* messages a session takes from its client, and sends to it

\* ---------------------------------------------------------------- values

None == "None"

\* Clients are numbered in the order httpx.AsyncClient(...) made them; 0
\* stands for None.
NoClient == 0

\* _http_client = None at import: current is the client _http_client refers
\* to, closed the clients whose is_closed is true, made the number of clients
\* constructed, closing the client a close_http_client call is waiting on in
\* aclose().
NoHttp == [current |-> NoClient, closed |-> {}, made |-> 0, closing |-> NoClient]

\* traced_request blocks are numbered from 1; 0 stands for code outside
\* any block.
MaxBlocks == 3
Blocks == 1..MaxBlocks
Outside == 0

\* correlation_filter = CorrelationIdFilter() at import: filter is its
\* _correlation_id, pc the position of each block, record the last log
\* record that went through the filter.
NoLogging == [filter |-> None,
              pc |-> [b \in Blocks |-> "out"],
              record |-> [msg |-> "none", by |-> Outside, correlation_id |-> "N/A"]]

\* websocket_endpoint waiting in asyncio.wait with both tasks created:
\* the socket is accepted, the live event stream and the queue are open.
NoSession == [socket |-> "open", stream |-> "live",
              client_to_agent |-> "running", agent_to_client |-> "running",
              endpoint |-> "waiting", queue |-> <<>>, closed |-> FALSE,
              sent |-> 0, send_failed |-> FALSE]

\* No function has been called yet.
NoCalc == [fn |-> "none", args |-> <<>>, ret |-> <<>>]

\* Coordinates are integers counting 1e-7 degrees, so that the sixth decimal
\* is the tens digit and formatting with .6f has something to round.
Abs(x) == IF x < 0 THEN -x ELSE x

\* f"{x:.6f}": sign, then the magnitude rounded to the sixth decimal. The
\* sign is printed for every negative input, also when it rounds to zero.
\* Inputs are never exactly half way between two sixth decimals.
Fmt6(x) == <<IF x < 0 THEN "-" ELSE "", (Abs(x) + 5) \div 10>>

\* The order of the parameter names under Python's string comparison.
NameRank(n) ==
    CASE n = "fov" -> 0
      [] n = "heading" -> 1
      [] n = "map_type" -> 2
      [] n = "pitch" -> 3
      [] n = "zoom" -> 4

\* sorted(params.items()): the (name, value) pairs by name (names are unique
\* in a keyword dictionary).
RECURSIVE SortedItems(_)
SortedItems(items) ==
    IF items = <<>> THEN <<>>
    ELSE LET i == CHOOSE j \in 1..Len(items) :
                    \A k \in 1..Len(items) :
                        NameRank(items[j][1]) <= NameRank(items[k][1])
             rest == [k \in 1..(Len(items) - 1) |->
                        IF k < i THEN items[k] ELSE items[k + 1]]
         IN <<items[i]>> \o SortedItems(rest)

\* ImageCache._make_key. The md5 digest of the formatted text is taken to be
\* collision free, so the key is the formatted text itself.
_make_key(lat, lng, params) == <<Fmt6(lat), Fmt6(lng), SortedItems(params)>>

\* ---------------------------------------------------------------- ImageCache

\* ImageCache.__init__ followed by set_name.
ImageCache(ttl_seconds, max_size, name) ==
    [store |-> <<>>, ttl |-> ttl_seconds, max_size |-> max_size,
     hits |-> 0, misses |-> 0, name |-> name]

\* A variant of IndexOf that takes the first entry there is, whatever its key.
IndexOfFirst(store, key) == IF Len(store) > 0 THEN 1 ELSE 0

\* The store is the dict self._cache in its iteration (insertion) order:
\* a sequence of entries [key, ts, value] with pairwise distinct keys.
IndexOf(store, key) ==
    IF \E i \in 1..Len(store) : store[i].key = key
    THEN CHOOSE i \in 1..Len(store) : store[i].key = key
    ELSE 0

\* del self._cache[k] for the entry at position i.
RemoveAt(store, i) ==
    [k \in 1..(Len(store) - 1) |-> IF k < i THEN store[k] ELSE store[k + 1]]

\* A variant of OldestIndex that picks the most recent entry.
NewestIndex(store) ==
    CHOOSE i \in 1..Len(store) :
        /\ \A k \in 1..Len(store) : store[i].ts >= store[k].ts
        /\ \A k \in 1..(i - 1) : store[k].ts < store[i].ts

\* min(self._cache, key=lambda k: self._cache[k][0]): the first entry, in
\* iteration order, among those with the least timestamp.
OldestIndex(store) ==
    CHOOSE i \in 1..Len(store) :
        /\ \A k \in 1..Len(store) : store[i].ts <= store[k].ts
        /\ \A k \in 1..(i - 1) : store[k].ts > store[i].ts

\* A variant of PutEntry that leaves an existing entry as it is.
PutEntryIfAbsent(store, key, t, value) ==
    IF IndexOf(store, key) # 0
    THEN store
    ELSE Append(store, [key |-> key, ts |-> t, value |-> value])

\* self._cache[key] = (time.time(), value): an existing key keeps its place
\* in the dict, a new key goes to the end.
PutEntry(store, key, t, value) ==
    LET i == IndexOf(store, key)
        e == [key |-> key, ts |-> t, value |-> value]
    IN IF i # 0 THEN [store EXCEPT ![i] = e] ELSE Append(store, e)

\* A variant of AtCapacity that lets the store grow one entry too far.
OverCapacity(c) == Len(c.store) > c.max_size

\* The capacity check of ImageCache.set.
AtCapacity(c) == Len(c.store) >= c.max_size

\* A variant of Fresh that still serves an entry aged exactly ttl.
FreshInclusive(c, ts, t) == t - ts <= c.ttl

\* The expiry test of ImageCache.get at clock reading t.
Fresh(c, ts, t) == t - ts < c.ttl

\* A variant of get that leaves an expired entry where it is.
get_keeping_expired(c, lat, lng, params, t) ==
    LET key == _make_key(lat, lng, params)
        i == IndexOf(c.store, key)
    IN IF i # 0 /\ Fresh(c, c.store[i].ts, t)
       THEN [cache |-> [c EXCEPT !.hits = @ + 1], ret |-> c.store[i].value]
       ELSE [cache |-> [c EXCEPT !.misses = @ + 1], ret |-> None]

\* A variant of get that stamps the entry it serves with the time of the read.
get_refreshing(c, lat, lng, params, t) ==
    LET key == _make_key(lat, lng, params)
        i == IndexOf(c.store, key)
    IN IF i # 0
       THEN IF Fresh(c, c.store[i].ts, t)
            THEN [cache |-> [c EXCEPT !.hits = @ + 1, !.store[i].ts = t],
                  ret |-> c.store[i].value]
            ELSE [cache |-> [c EXCEPT !.store = RemoveAt(@, i), !.misses = @ + 1],
                  ret |-> None]
       ELSE [cache |-> [c EXCEPT !.misses = @ + 1], ret |-> None]

\* ImageCache.get at clock reading t: the cache afterwards and the value returned.
get(c, lat, lng, params, t) ==
    LET key == _make_key(lat, lng, params)
        i == IndexOf(c.store, key)
    IN IF i # 0
       THEN IF Fresh(c, c.store[i].ts, t)
            THEN [cache |-> [c EXCEPT !.hits = @ + 1], ret |-> c.store[i].value]
            ELSE [cache |-> [c EXCEPT !.store = RemoveAt(@, i), !.misses = @ + 1],
                  ret |-> None]
       ELSE [cache |-> [c EXCEPT !.misses = @ + 1], ret |-> None]

\* A variant of set that, at capacity, stops after the eviction: the state
\* another operation would see if set could be interrupted there.
set_stopping_after_eviction(c, lat, lng, value, params, t) ==
    IF AtCapacity(c)
    THEN [c EXCEPT !.store = RemoveAt(@, OldestIndex(@))]
    ELSE [c EXCEPT !.store = PutEntry(@, _make_key(lat, lng, params), t, value)]

\* ImageCache.set at clock reading t.
set(c, lat, lng, value, params, t) ==
    LET kept == IF AtCapacity(c)
                THEN RemoveAt(c.store, OldestIndex(c.store))
                ELSE c.store
        key == _make_key(lat, lng, params)
    IN [c EXCEPT !.store = PutEntry(kept, key, t, value)]

\* round(hits / total, 3), in thousandths. Within the lookups made here
\* hits / total never lies half way between two thousandths.
Round3(hits, total) == (2000 * hits + total) \div (2 * total)

\* A variant of stats that reports the capacity as the size.
stats_reporting_capacity(c) ==
    [name |-> c.name, hits |-> c.hits, misses |-> c.misses,
     hit_rate |-> IF c.hits + c.misses > 0 THEN Round3(c.hits, c.hits + c.misses) ELSE 0,
     size |-> c.max_size, max_size |-> c.max_size, ttl_seconds |-> c.ttl]

\* ImageCache.stats: the dict returned (hit_rate in thousandths).
stats(c) ==
    [name |-> c.name, hits |-> c.hits, misses |-> c.misses,
     hit_rate |-> IF c.hits + c.misses > 0 THEN Round3(c.hits, c.hits + c.misses) ELSE 0,
     size |-> Len(c.store), max_size |-> c.max_size, ttl_seconds |-> c.ttl]

\* A variant of clear that keeps the counters.
clear_keeping_counters(c) == [c EXCEPT !.store = <<>>]

\* ImageCache.clear.
clear(c) == [c EXCEPT !.store = <<>>, !.hits = 0, !.misses = 0]

\* A variant of invalidate that counts a miss when there is nothing to remove.
invalidate_counting_miss(c, lat, lng, params) ==
    LET key == _make_key(lat, lng, params)
        i == IndexOf(c.store, key)
    IN IF i # 0
       THEN [cache |-> [c EXCEPT !.store = RemoveAt(@, i)], ret |-> TRUE]
       ELSE [cache |-> [c EXCEPT !.misses = @ + 1], ret |-> FALSE]

\* ImageCache.invalidate: the cache afterwards and the boolean returned.
invalidate(c, lat, lng, params) ==
    LET key == _make_key(lat, lng, params)
        i == IndexOf(c.store, key)
    IN IF i # 0
       THEN [cache |-> [c EXCEPT !.store = RemoveAt(@, i)], ret |-> TRUE]
       ELSE [cache |-> c, ret |-> FALSE]

\* ---------------------------------------------------------------- a cache under test

\* The inputs of the calls made on a cache under test: (lat, lng, params).
\* The first two address one entry (same sixth decimal, same parameters in
\* another order); the others address entries of their own.
CallInputs ==
    { <<0, 0, <<<<"zoom", 18>>, <<"map_type", "satellite">>>>>>,
      <<2, 0, <<<<"map_type", "satellite">>, <<"zoom", 18>>>>>>,
      <<12, 0, <<<<"zoom", 18>>, <<"map_type", "satellite">>>>>>,
      <<0, 0, <<<<"zoom", 21>>, <<"map_type", "roadmap">>>>>> }
Payloads == {"v1", "v2"}

\* The ttl_seconds a cache under test is constructed with.
TtlChoices == {1, 2}

Keys(store) == {store[i].key : i \in 1..Len(store)}

\* The history record of one ImageCache call: the call, its key, what it
\* returned (for set: the payload it was given) and the keys it took out of
\* the store.
Call(op, n, key, ret, before, after) ==
    [op |-> op, cache |-> n, key |-> key, ret |-> ret,
     removed |-> Keys(before.store) \ Keys(after.store)]

NoCall == [op |-> "none", cache |-> "", key |-> <<>>, ret |-> None, removed |-> {}]

InitCache ==
    /\ \E ttl \in TtlChoices, cap \in 1..MaxCap :
          caches = [n \in {"unnamed"} |-> ImageCache(ttl, cap, n)]
    /\ now = 0
    /\ last = NoCall
    /\ api_key = TRUE
    /\ frames = <<>>
    /\ hist = <<>>
    /\ probe = FALSE
    /\ logging = NoLogging
    /\ session = NoSession
    /\ tools = <<>>
    /\ pano = <<>>
    /\ http = NoHttp
    /\ calc = NoCalc

\* time.time() moves on between two calls.
Tick ==
    /\ now < MaxTime
    /\ now' = now + 1
    /\ UNCHANGED <<caches, last, fetchVars, serverVars, callerVars>>

DoGet(n, lat, lng, params) ==
    /\ caches[n].hits + caches[n].misses < MaxLookups
    /\ LET r == get(caches[n], lat, lng, params, now)
       IN /\ caches' = [caches EXCEPT ![n] = r.cache]
          /\ last' = Call("get", n, _make_key(lat, lng, params), r.ret,
                           caches[n], r.cache)
    /\ UNCHANGED <<now, fetchVars, serverVars, callerVars>>

DoSet(n, lat, lng, value, params) ==
    /\ caches' = [caches EXCEPT ![n] = set(@, lat, lng, value, params, now)]
    /\ last' = Call("set", n, _make_key(lat, lng, params), value,
                     caches[n], caches'[n])
    /\ UNCHANGED <<now, fetchVars, serverVars, callerVars>>

DoInvalidate(n, lat, lng, params) ==
    /\ LET r == invalidate(caches[n], lat, lng, params)
       IN /\ caches' = [caches EXCEPT ![n] = r.cache]
          /\ last' = Call("invalidate", n, _make_key(lat, lng, params),
                           IF r.ret THEN "True" ELSE "False", caches[n], r.cache)
    /\ UNCHANGED <<now, fetchVars, serverVars, callerVars>>

DoClear(n) ==
    /\ caches' = [caches EXCEPT ![n] = clear(@)]
    /\ last' = Call("clear", n, <<>>, None, caches[n], caches'[n])
    /\ UNCHANGED <<now, fetchVars, serverVars, callerVars>>

NextCache ==
    \/ Tick
    \/ \E n \in DOMAIN caches, a \in CallInputs : DoGet(n, a[1], a[2], a[3])
    \/ \E n \in DOMAIN caches, a \in CallInputs, v \in Payloads :
          DoSet(n, a[1], a[2], v, a[3])
    \/ \E n \in DOMAIN caches, a \in CallInputs : DoInvalidate(n, a[1], a[2], a[3])
    \/ \E n \in DOMAIN caches : DoClear(n)

Spec == InitCache /\ [][NextCache]_vars

\* ---------------------------------------------------------------- ImageCache: properties

Entries(store) == {store[i] : i \in 1..Len(store)}

\* A step that is a call `op` on cache n. Every call writes `last`; get
\* changes a counter and set is told apart from the steps that leave the
\* cache alone by the new record.
IsCall(op, n) == last'.op = op /\ last'.cache = n /\ <<caches, last>>' # <<caches, last>>

\* C1: with max_size >= 1, after any sequence of get, set, invalidate and
\* clear calls a cache stores at most max_size entries.
C1_SizeWithinMax ==
    \A n \in DOMAIN caches :
        caches[n].max_size >= 1 => Len(caches[n].store) <= caches[n].max_size

\* A set has just filled a cache of capacity 2 by evicting an entry.
C1_Witness ==
    \E n \in DOMAIN caches :
        /\ last.op = "set" /\ last.cache = n
        /\ last.removed # {}
        /\ caches[n].max_size = 2
        /\ Len(caches[n].store) = caches[n].max_size

\* C2: a set of a key that is not stored, on a full store, removes exactly
\* one entry, that entry has the least timestamp of the stored entries, and
\* every other entry stays as it was; on a store that is not full it removes
\* nothing.
C2_SetEvictsOneOldest ==
    [][\A n \in DOMAIN caches :
          LET pre == caches[n].store
              post == caches'[n].store
              gone == {e \in Entries(pre) : e \notin Entries(post)}
          IN (IsCall("set", n) /\ last'.key \notin Keys(pre)) =>
                IF Len(pre) = caches[n].max_size
                THEN /\ Cardinality(gone) = 1
                     /\ \A g \in gone, e \in Entries(pre) : g.ts <= e.ts
                     /\ Len(post) = Len(pre)
                ELSE (Len(pre) < caches[n].max_size) =>
                        /\ gone = {}
                        /\ Len(post) = Len(pre) + 1
      ]_vars

\* max_size = 2, set A, set B, set C: the store holds exactly B and C.
C2_Witness ==
    \E n \in DOMAIN caches :
        LET st == caches[n].store
            A == _make_key(0, 0, <<<<"zoom", 18>>, <<"map_type", "satellite">>>>)
            B == _make_key(12, 0, <<<<"zoom", 18>>, <<"map_type", "satellite">>>>)
            C == _make_key(0, 0, <<<<"zoom", 21>>, <<"map_type", "roadmap">>>>)
        IN /\ caches[n].max_size = 2
           /\ last.op = "set" /\ last.key = C /\ last.removed = {A}
           /\ Len(st) = 2 /\ st[1].key = B /\ st[2].key = C

\* C3: a get of a stored entry whose age has reached ttl returns a miss and
\* leaves the key out of the store; a get of a stored entry younger than
\* ttl returns its payload.
C3_ExpiredNeverServed ==
    [][\A n \in DOMAIN caches :
          LET pre == caches[n].store
              i == IndexOf(pre, last'.key)
          IN (IsCall("get", n) /\ i # 0) =>
                IF now - pre[i].ts >= caches[n].ttl
                THEN /\ last'.ret = None
                     /\ last'.key \notin Keys(caches'[n].store)
                ELSE last'.ret = pre[i].value
      ]_vars

\* A get has found its entry expired and taken it out.
C3_Witness ==
    /\ last.op = "get"
    /\ last.ret = None
    /\ last.removed = {last.key}

\* C4: a get that directly follows a set of the same key, with less than
\* ttl elapsed since that set, returns the payload the set was given.
C4_GetAfterSet ==
    [][\A n \in DOMAIN caches :
          LET pre == caches[n].store
              i == IndexOf(pre, last.key)
          IN (/\ last.op = "set" /\ last.cache = n
              /\ IsCall("get", n) /\ last'.key = last.key) =>
                /\ i # 0
                /\ (now - pre[i].ts < caches[n].ttl) => last'.ret = last.ret
      ]_vars

\* A get has returned a stored payload some time after it was set.
C4_Witness ==
    \E n \in DOMAIN caches :
        LET st == caches[n].store
            i == IndexOf(st, last.key)
        IN /\ last.op = "get" /\ last.cache = n
           /\ i # 0
           /\ last.ret = st[i].value
           /\ now - st[i].ts > 0

\* ---------------------------------------------------------------- text

\* Text that the code inspects is a sequence of characters.
Lower(ch) ==
    CASE ch = "Q" -> "q"
      [] ch = "U" -> "u"
      [] ch = "O" -> "o"
      [] ch = "T" -> "t"
      [] ch = "A" -> "a"
      [] OTHER -> ch

\* str.lower()
LowerText(text) == [i \in 1..Len(text) |-> Lower(text[i])]

\* pat in text
Contains(text, pat) ==
    \E i \in 0..(Len(text) - Len(pat)) :
        \A j \in 1..Len(pat) : text[i + j] = pat[j]

QuotaWord == <<"q", "u", "o", "t", "a">>

\* ---------------------------------------------------------------- errors

\* A variant of categorize_http_error that tests the body as it is, without
\* lowering it.
categorize_case_sensitive(status_code, response_text) ==
    IF status_code = 429
    THEN [type |-> "RateLimitError",
          msg |-> <<"Rate limit exceeded. Please wait before retrying.">>]
    ELSE IF status_code = 403 /\ Contains(response_text, QuotaWord)
    THEN [type |-> "QuotaExceededError",
          msg |-> <<"API quota exceeded. Check your billing.">>]
    ELSE [type |-> "APIError", msg |-> <<"HTTP ", status_code, ": ", response_text>>]

\* categorize_http_error: the exception object it returns, msg being its str().
categorize_http_error(status_code, response_text) ==
    IF status_code = 429
    THEN [type |-> "RateLimitError",
          msg |-> <<"Rate limit exceeded. Please wait before retrying.">>]
    ELSE IF status_code = 403 /\ Contains(LowerText(response_text), QuotaWord)
    THEN [type |-> "QuotaExceededError",
          msg |-> <<"API quota exceeded. Check your billing.">>]
    ELSE [type |-> "APIError", msg |-> <<"HTTP ", status_code, ": ", response_text>>]

\* ---------------------------------------------------------------- the network

\* What one request attempt can end in: a response (status, body text,
\* content), or an exception raised by client.get (with its str()).
Response(status, text) ==
    [kind |-> "response", status |-> status, text |-> text, msg |-> <<>>]
Raised(kind, msg) ==
    [kind |-> kind, status |-> 0, text |-> <<>>, msg |-> msg]

Outcomes ==
    { Response(200, <<>>),
      Response(429, <<>>),
      Response(403, <<"Q", "u", "o", "t", "a">>),
      Response(403, <<"d", "e", "n", "y">>),
      Response(500, <<"q", "u", "o", "t", "a">>),
      Raised("timeout", <<"">>),
      Raised("network", <<"connect failed">>),
      Raised("other", <<"unexpected">>) }

\* response.raise_for_status() raises HTTPStatusError unless the status is 2xx.
IsSuccessStatus(status) == 200 <= status /\ status <= 299

\* retry_if_exception_type((httpx.TimeoutException, httpx.NetworkError))
IsTransient(o) == o.kind \in {"timeout", "network"}

\* A variant of RetryOn that also retries after an HTTP error status.
RetryOnAnyFailure(o) ==
    IsTransient(o) \/ (o.kind = "response" /\ ~IsSuccessStatus(o.status))

\* The retry predicate of _fetch_with_retry.
RetryOn(o) == IsTransient(o)

\* stop_after_attempt(3)
MaxAttempts == 3

\* A variant of StopAfter that allows one more attempt.
StopAfterOneMore(attempt_number) == attempt_number >= MaxAttempts + 1

\* The stop condition of _fetch_with_retry.
StopAfter(attempt_number) == attempt_number >= MaxAttempts

\* wait_exponential(multiplier=1, min=1, max=10)
WaitMultiplier == 1
WaitMin == 1
WaitMax == 10

Max2(a, b) == IF a >= b THEN a ELSE b
Min2(a, b) == IF a <= b THEN a ELSE b

\* The seconds slept after attempt number n failed.
WaitAfter(n) == Max2(WaitMin, Min2(WaitMultiplier * 2 ^ (n - 1), WaitMax))

\* ---------------------------------------------------------------- the image

\* compress_image: re-encoded as JPEG when Pillow is there and works
\* (pil = "ok"), the bytes as they came otherwise.
PilOutcomes == {"ok", "missing", "error"}

\* A variant of compress_image that has no except clauses: it hands out a
\* re-encoded image whatever happened.
compress_image_unguarded(image_bytes, pil) == <<"jpeg", image_bytes>>

compress_image(image_bytes, pil) ==
    IF pil = "ok" THEN <<"jpeg", image_bytes>> ELSE image_bytes

\* base64.b64encode(...).decode("utf-8")
b64encode(image_bytes) == <<"b64", image_bytes>>

\* ---------------------------------------------------------------- the views

\* A view call: which function, its coordinates, its other arguments as
\* (name, value) pairs in the order given, and its compress flag.
ViewCall(kind, lat, lng, kw, compress) ==
    [kind |-> kind, lat |-> lat, lng |-> lng, kw |-> kw, compress |-> compress]

Arg(kw, name) == kw[CHOOSE i \in 1..Len(kw) : kw[i][1] = name][2]

Clamp(lo, hi, x) == Max2(lo, Min2(hi, x))

\* A variant of Facing whose bands include their upper bound instead of
\* their lower one.
FacingUpperInclusive(heading) ==
    IF 0 < heading /\ heading <= 45 THEN "North"
    ELSE IF 45 < heading /\ heading <= 90 THEN "Northeast"
    ELSE IF 90 < heading /\ heading <= 135 THEN "East"
    ELSE IF 135 < heading /\ heading <= 180 THEN "Southeast"
    ELSE IF 180 < heading /\ heading <= 225 THEN "South"
    ELSE IF 225 < heading /\ heading <= 270 THEN "Southwest"
    ELSE IF 270 < heading /\ heading <= 315 THEN "West"
    ELSE IF 315 < heading /\ heading <= 360 THEN "Northwest"
    ELSE "North"

\* The direction_names table of get_street_view and the loop over it.
Facing(heading) ==
    IF 0 <= heading /\ heading < 45 THEN "North"
    ELSE IF 45 <= heading /\ heading < 90 THEN "Northeast"
    ELSE IF 90 <= heading /\ heading < 135 THEN "East"
    ELSE IF 135 <= heading /\ heading < 180 THEN "Southeast"
    ELSE IF 180 <= heading /\ heading < 225 THEN "South"
    ELSE IF 225 <= heading /\ heading < 270 THEN "Southwest"
    ELSE IF 270 <= heading /\ heading < 315 THEN "West"
    ELSE IF 315 <= heading /\ heading < 360 THEN "Northwest"
    ELSE "North"

PitchDesc(pitch) ==
    IF -15 <= pitch /\ pitch <= 15 THEN "eye level"
    ELSE IF pitch > 15 THEN "looking up" ELSE "looking down"

\* A variant of Parameters that takes the remainder of the heading with the
\* sign of the heading.
ParametersSignedRemainder(call) ==
    IF call.kind = "overhead"
    THEN [lat |-> call.lat, lng |-> call.lng,
          zoom |-> Clamp(0, 21, Arg(call.kw, "zoom")),
          map_type |-> Arg(call.kw, "map_type")]
    ELSE LET h == Arg(call.kw, "heading")
             heading == IF h < 0 THEN -((-h) % 360) ELSE h % 360
         IN [lat |-> call.lat, lng |-> call.lng,
             heading |-> heading,
             pitch |-> Clamp(-90, 90, Arg(call.kw, "pitch")),
             fov |-> Clamp(20, 120, Arg(call.kw, "fov")),
             facing |-> Facing(heading)]

\* The normalized parameters get_overhead_view / get_street_view send and echo.
Parameters(call) ==
    IF call.kind = "overhead"
    THEN [lat |-> call.lat, lng |-> call.lng,
          zoom |-> Clamp(0, 21, Arg(call.kw, "zoom")),
          map_type |-> Arg(call.kw, "map_type")]
    ELSE LET heading == Arg(call.kw, "heading") % 360
         IN [lat |-> call.lat, lng |-> call.lng,
             heading |-> heading,
             pitch |-> Clamp(-90, 90, Arg(call.kw, "pitch")),
             fov |-> Clamp(20, 120, Arg(call.kw, "fov")),
             facing |-> Facing(heading)]

\* The query parameters of the request (the key left out).
RequestParams(call) ==
    LET P == Parameters(call)
    IN IF call.kind = "overhead"
       THEN [center |-> <<call.lat, call.lng>>, zoom |-> P.zoom, size |-> "400x400",
             maptype |-> P.map_type]
       ELSE [location |-> <<call.lat, call.lng>>, size |-> "400x400",
             heading |-> P.heading, pitch |-> P.pitch, fov |-> P.fov]

\* The dict returned on success. latency_ms, a measured duration, is left out.
SuccessResult(call, content, pil) ==
    LET image_bytes == IF call.compress THEN compress_image(content, pil) ELSE content
        P == Parameters(call)
    IN IF call.kind = "overhead"
       THEN [success |-> TRUE,
             image_data |-> b64encode(image_bytes),
             mime_type |-> IF ~call.compress THEN "image/png" ELSE "image/jpeg",
             description |-> <<"Overhead", P.map_type, call.lat, call.lng, P.zoom>>,
             parameters |-> P]
       ELSE [success |-> TRUE,
             image_data |-> b64encode(image_bytes),
             mime_type |-> "image/jpeg",
             description |-> <<"Street view facing", P.facing, P.heading,
                               PitchDesc(P.pitch), P.fov>>,
             parameters |-> P]

\* A variant of FailureResult that also carries (empty) image data.
FailureResultWithImage(msg) ==
    [success |-> FALSE, error |-> msg, image_data |-> b64encode("")]

\* The dict returned by either except clause.
FailureResult(msg) == [success |-> FALSE, error |-> msg]

\* What the try block of a view function makes of the exception that
\* _fetch_with_retry let through.
ResultOfException(o) ==
    IF o.kind = "response"
    THEN FailureResult(categorize_http_error(o.status, o.text).msg)
    ELSE FailureResult(o.msg)

\* ---------------------------------------------------------------- the pooled client

\* A variant of get_http_client that only tests for None.
get_http_client_unless_none(h) ==
    IF h.current = NoClient
    THEN [http |-> [h EXCEPT !.current = h.made + 1, !.made = h.made + 1],
          ret |-> h.made + 1]
    ELSE [http |-> h, ret |-> h.current]

\* get_http_client: the module state afterwards and the client returned.
get_http_client(h) ==
    IF h.current = NoClient \/ h.current \in h.closed
    THEN [http |-> [h EXCEPT !.current = h.made + 1, !.made = h.made + 1],
          ret |-> h.made + 1]
    ELSE [http |-> h, ret |-> h.current]

\* client.get on a closed client: httpx raises RuntimeError before it sends
\* anything.
ClosedClientError ==
    [kind |-> "closed", status |-> 0, text |-> <<>>,
     msg |-> <<"Cannot send a request, as the client has been closed.">>]

\* ---------------------------------------------------------------- invocations

\* An invocation that has not been called, or the frame of one that has:
\* pc is where it stands, attempts is tenacity's attempt_number, wait the
\* backoff delay it is sleeping, result the dict it returned (this is the
\* dict object itself: whoever holds a reference to it sees its fields).
IdleFrame ==
    [pc |-> "idle", call |-> <<>>, attempts |-> 0, wait |-> 0, result |-> <<>>,
     client |-> NoClient]

\* A variant of StartView that does not look for the key.
StartViewWithoutKeyCheck(call) ==
    [pc |-> "inflight", call |-> call, attempts |-> 1, wait |-> 0, result |-> <<>>,
     client |-> get_http_client(http).ret]

\* get_overhead_view / get_street_view up to the first request: without a
\* key get_maps_api_key raises ValueError, outside the try block.
StartView(call) ==
    IF ~api_key
    THEN [pc |-> "raised", call |-> call, attempts |-> 0, wait |-> 0,
          result |-> [raised |-> "ValueError",
                      msg |-> <<"GOOGLE_MAPS_API_KEY environment variable is not set">>],
          client |-> NoClient]
    ELSE [pc |-> "inflight", call |-> call, attempts |-> 1, wait |-> 0, result |-> <<>>,
          client |-> get_http_client(http).ret]

\* The module state after a view function got as far as StartView takes it.
HttpAfterStart == IF api_key THEN get_http_client(http).http ELSE http

\* The frame after its request in flight ended in outcome o (pil: how the
\* compression went, if it is reached).
AfterAttempt(fr, o, pil) ==
    IF o.kind = "response" /\ IsSuccessStatus(o.status)
    THEN [fr EXCEPT !.pc = "done", !.attempts = 0,
                    !.result = SuccessResult(fr.call, "png", pil)]
    ELSE IF RetryOn(o) /\ ~StopAfter(fr.attempts)
    THEN [fr EXCEPT !.pc = "sleep", !.wait = WaitAfter(fr.attempts)]
    ELSE [fr EXCEPT !.pc = "done", !.attempts = 0, !.result = ResultOfException(o)]

\* The sleep is over: _fetch_with_retry makes its next attempt, on the client
\* it was called with. On a closed client the attempt raises at once, which
\* is not retried and ends the view function in its second except clause.
AfterSleep(fr) ==
    IF fr.client \in http.closed
    THEN [fr EXCEPT !.pc = "done", !.attempts = 0, !.wait = 0,
                    !.result = ResultOfException(ClosedClientError)]
    ELSE [fr EXCEPT !.pc = "inflight", !.attempts = @ + 1, !.wait = 0]

\* A request attempt of invocation f ends.
Respond(f, o, pil) ==
    /\ frames[f].pc = "inflight"
    /\ frames' = [frames EXCEPT ![f] = AfterAttempt(@, o, pil)]
    /\ hist' = IF probe THEN [hist EXCEPT ![f] = Append(@, o)] ELSE hist
    /\ UNCHANGED <<api_key, probe, serverVars, http>>

\* The backoff sleep of invocation f ends.
Wake(f) ==
    /\ frames[f].pc = "sleep"
    /\ frames' = [frames EXCEPT ![f] = AfterSleep(@)]
    /\ hist' = IF probe /\ frames[f].client \in http.closed
               THEN [hist EXCEPT ![f] = Append(@, ClosedClientError)]
               ELSE hist
    /\ UNCHANGED <<api_key, probe, serverVars, http>>

\* ---------------------------------------------------------------- direct view calls

\* The view calls made directly (not through the cache-aware tools).
DirectCalls ==
    { ViewCall("overhead", 0, 0, <<<<"zoom", 25>>, <<"map_type", "satellite">>>>, TRUE),
      ViewCall("overhead", 0, 0, <<<<"zoom", -1>>, <<"map_type", "roadmap">>>>, FALSE),
      ViewCall("street", 0, 0, <<<<"heading", 370>>, <<"pitch", 0>>, <<"fov", 90>>>>, TRUE),
      ViewCall("street", 0, 0, <<<<"heading", -90>>, <<"pitch", 100>>, <<"fov", 10>>>>, FALSE) }

InitFetch ==
    /\ caches = <<>>
    /\ now = 0
    /\ last = NoCall
    /\ api_key \in BOOLEAN
    /\ frames = [f \in {"f1"} |-> IdleFrame]
    /\ hist = [f \in {"f1"} |-> <<>>]
    /\ probe = TRUE
    /\ logging = NoLogging
    /\ session = NoSession
    /\ tools = <<>>
    /\ pano = <<>>
    /\ http = NoHttp
    /\ calc = NoCalc

\* A caller invokes a view function.
CallView(f, call) ==
    /\ frames[f].pc = "idle"
    /\ frames' = [frames EXCEPT ![f] = StartView(call)]
    /\ http' = HttpAfterStart
    /\ UNCHANGED <<api_key, hist, probe, serverVars, cacheVars, callerVars>>

NextFetch ==
    \/ \E f \in DOMAIN frames, call \in DirectCalls : CallView(f, call)
    \/ \E f \in DOMAIN frames, o \in Outcomes, pil \in PilOutcomes :
          Respond(f, o, pil) /\ UNCHANGED <<cacheVars, callerVars>>
    \/ \E f \in DOMAIN frames : Wake(f) /\ UNCHANGED <<cacheVars, callerVars>>

SpecFetch == InitFetch /\ [][NextFetch]_vars

\* Every attempt ends: each request carries the client's 30 s timeout and
\* each backoff sleep is finite.
SpecFetchLive ==
    /\ SpecFetch
    /\ \A f \in {"f1"} :
          /\ WF_vars(\E o \in Outcomes, pil \in PilOutcomes :
                        Respond(f, o, pil) /\ UNCHANGED <<cacheVars, callerVars>>)
          /\ WF_vars(Wake(f) /\ UNCHANGED <<cacheVars, callerVars>>)

\* ---------------------------------------------------------------- fetch: properties

Transient(o) == o.kind \in {"timeout", "network"}
Succeeded(o) == o.kind = "response" /\ o.status \in 200..299
ErrorStatus(o) == o.kind = "response" /\ o.status \notin 200..299

\* C7: a call of _fetch_with_retry makes between 1 and 3 request attempts,
\* a further attempt is made only after an attempt that ended in a timeout
\* or a network error, and an attempt that ended in a non-2xx status or in
\* success is the last one.
C7_RetryOnlyTransient ==
    \A f \in DOMAIN frames :
        LET h == hist[f]
            fr == frames[f]
        IN /\ Len(h) <= 3
           /\ fr.attempts <= 3
           /\ fr.pc = "done" => Len(h) >= 1
           /\ fr.pc = "inflight" => fr.attempts = Len(h) + 1
           /\ fr.pc = "sleep" => fr.attempts = Len(h)
           /\ \A i \in 1..(Len(h) - 1) : Transient(h[i])
           /\ fr.pc \in {"inflight", "sleep"} => \A i \in 1..Len(h) : Transient(h[i])

\* The third attempt is in flight after a timeout and a network error.
C7_Witness ==
    \E f \in DOMAIN frames :
        /\ frames[f].pc = "inflight"
        /\ frames[f].attempts = 3
        /\ Len(hist[f]) = 2
        /\ hist[f][1].kind = "timeout"
        /\ hist[f][2].kind = "network"

\* C8: a single-view fetch terminates; it returns a success payload, with no
\* error, iff some attempt i <= 3 succeeded and every attempt before it
\* ended in a transient failure; after three transient failures it returns
\* a failure result with an error, having made exactly 3 attempts.
C8_Returned ==
    \A f \in DOMAIN frames :
        LET h == hist[f]
            r == frames[f].result
            won == \E i \in 1..Len(h) :
                      /\ i <= 3
                      /\ Succeeded(h[i])
                      /\ \A j \in 1..(i - 1) : Transient(h[j])
        IN frames[f].pc = "done" =>
              /\ r.success <=> won
              /\ r.success => ("image_data" \in DOMAIN r /\ "error" \notin DOMAIN r)
              /\ (Len(h) >= 3 /\ \A i \in 1..3 : Transient(h[i])) =>
                    /\ ~r.success
                    /\ "error" \in DOMAIN r
                    /\ Len(h) = 3

RateLimitedMessage == <<"Rate limit exceeded. Please wait before retrying.">>
QuotaExceededMessage == <<"API quota exceeded. Check your billing.">>

OverheadTtl == 3600
\* streetview_cache = ImageCache(ttl_seconds=1800, max_size=100)
StreetviewTtl == 1800
GlobalMaxSize == 100

\* The module-level cache a view kind uses.
CacheOf(kind) == IF kind = "overhead" THEN "overhead" ELSE "streetview"

\* A payload is a reference to the dict a view invocation returned: the name
\* of that invocation. The dict itself is frames[ref].result.
Deref(ref) == frames[ref].result

\* `if cached:` -- None is false, a dict is true unless it is empty.
Truthy(ref) == ref # None /\ DOMAIN Deref(ref) # {}

\* A variant of MarkFromCache that leaves the dict as it is.
NotMarked(d) == d

\* cached["from_cache"] = True
MarkFromCache(d) == [from_cache |-> TRUE] @@ d

\* A variant of ShouldCache that stores every result.
ShouldCacheAlways(result) == TRUE

\* `if result.get("success"):`
ShouldCache(result) == "success" \in DOMAIN result /\ result.success

\* The calls the agent makes through the tools. compress keeps its default.
ToolCalls ==
    { ViewCall("overhead", 0, 0, <<<<"zoom", 25>>, <<"map_type", "satellite">>>>, TRUE),
      ViewCall("street", 0, 0, <<<<"heading", 370>>, <<"pitch", 0>>, <<"fov", 90>>>>, TRUE),
      ViewCall("street", 0, 0, <<<<"heading", 10>>, <<"pitch", 0>>, <<"fov", 90>>>>, TRUE) }

ToolIds == {"c1", "c2"}

IdleTool == [pc |-> "idle", call |-> <<>>, ret |-> None]

InitAgent ==
    /\ caches = [n \in {"overhead", "streetview"} |->
                    ImageCache(IF n = "overhead" THEN OverheadTtl ELSE StreetviewTtl,
                               GlobalMaxSize, n)]
    /\ now = 0
    /\ last = NoCall
    /\ api_key \in BOOLEAN
    /\ frames = [f \in ToolIds |-> IdleFrame]
    /\ hist = [f \in ToolIds |-> <<>>]
    /\ probe = FALSE
    /\ logging = NoLogging
    /\ session = NoSession
    /\ tools = [w \in ToolIds |-> IdleTool]
    /\ pano = <<>>
    /\ http = NoHttp
    /\ calc = NoCalc

\* cached_get_overhead_view / cached_get_street_view from the call to the
\* first suspension: the lookup, then either the hit return or the start of
\* the view function (whose ValueError, without a key, passes through).
CachedCall(w, call) ==
    /\ tools[w].pc = "idle"
    /\ LET n == CacheOf(call.kind)
           r == get(caches[n], call.lat, call.lng, call.kw, now)
       IN /\ caches' = [caches EXCEPT ![n] = r.cache]
          /\ IF Truthy(r.ret)
             THEN /\ frames' = [frames EXCEPT ![r.ret].result = MarkFromCache(@)]
                  /\ http' = http
                  /\ tools' = [tools EXCEPT ![w] =
                                  [pc |-> "returned", call |-> call, ret |-> r.ret]]
             ELSE /\ frames' = [frames EXCEPT ![w] = StartView(call)]
                  /\ http' = HttpAfterStart
                  /\ tools' = [tools EXCEPT ![w] =
                                  [pc |-> IF frames'[w].pc = "raised"
                                          THEN "raised" ELSE "awaiting",
                                   call |-> call, ret |-> None]]
    /\ UNCHANGED <<now, last, api_key, hist, probe, serverVars, pano, calc>>

cached_get_overhead_view(w, lat, lng, zoom, map_type) ==
    CachedCall(w, ViewCall("overhead", lat, lng,
                           <<<<"zoom", zoom>>, <<"map_type", map_type>>>>, TRUE))

cached_get_street_view(w, lat, lng, heading, pitch, fov) ==
    CachedCall(w, ViewCall("street", lat, lng,
                           <<<<"heading", heading>>, <<"pitch", pitch>>, <<"fov", fov>>>>,
                           TRUE))

\* A request attempt of tool call w ends. When that ends the view function,
\* the tool continues in the same step (it awaits the coroutine directly):
\* it stores a successful result and returns it.
ToolRespond(w, o, pil) ==
    /\ tools[w].pc = "awaiting"
    /\ Respond(w, o, pil)
    /\ IF frames'[w].pc = "done"
       THEN LET call == tools[w].call
                n == CacheOf(call.kind)
            IN /\ caches' = IF ShouldCache(frames'[w].result)
                            THEN [caches EXCEPT ![n] =
                                     set(@, call.lat, call.lng, w, call.kw, now)]
                            ELSE caches
               /\ tools' = [tools EXCEPT ![w].pc = "returned", ![w].ret = w]
       ELSE UNCHANGED <<caches, tools>>
    /\ UNCHANGED <<now, last, pano, calc>>

\* clear_all_caches (POST /cache/clear).
clear_all_caches ==
    /\ caches' = [n \in DOMAIN caches |-> clear(caches[n])]
    /\ UNCHANGED <<now, last, fetchVars, serverVars, callerVars>>

\* Half an hour passes.
Elapse ==
    /\ now < MaxTime * StreetviewTtl
    /\ now' = now + StreetviewTtl
    /\ UNCHANGED <<caches, last, fetchVars, serverVars, callerVars>>

NextAgent ==
    \/ \E w \in ToolIds, c \in ToolCalls :
          /\ c.kind = "overhead"
          /\ cached_get_overhead_view(w, c.lat, c.lng, Arg(c.kw, "zoom"), Arg(c.kw, "map_type"))
    \/ \E w \in ToolIds, c \in ToolCalls :
          /\ c.kind = "street"
          /\ cached_get_street_view(w, c.lat, c.lng, Arg(c.kw, "heading"),
                                    Arg(c.kw, "pitch"), Arg(c.kw, "fov"))
    \/ \E w \in ToolIds, o \in Outcomes, pil \in PilOutcomes : ToolRespond(w, o, pil)
    \/ \E w \in ToolIds : Wake(w) /\ UNCHANGED <<cacheVars, callerVars>>
    \/ clear_all_caches
    \/ Elapse

SpecAgent == InitAgent /\ [][NextAgent]_vars

\* ---------------------------------------------------------------- tools: properties

Stored(n) == {caches[n].store[i].value : i \in 1..Len(caches[n].store)}

\* C5: every payload stored in overhead_cache or streetview_cache is a
\* result with success = true.
C5_OnlySuccessCached ==
    \A n \in DOMAIN caches :
        \A ref \in Stored(n) :
            /\ "success" \in DOMAIN Deref(ref)
            /\ Deref(ref).success = TRUE

\* One tool call has returned a failure, which no cache holds, and another
\* has returned a success, which is stored.
C5_Witness ==
    \E w1, w2 \in ToolIds :
        /\ tools[w1].pc = "returned" /\ tools[w1].ret = w1
        /\ ~Deref(w1).success
        /\ \A n \in DOMAIN caches : w1 \notin Stored(n)
        /\ tools[w2].pc = "returned" /\ tools[w2].ret = w2
        /\ Deref(w2).success
        /\ \E n \in DOMAIN caches : w2 \in Stored(n)

\* C6: a tool call whose lookup hits returns the stored payload, marked
\* from_cache = true, without starting a fetch (no request is issued for it);
\* a call whose lookup misses runs the view function once, and stores the
\* result before it returns iff that result has success = true.
C6_HitSkipsFetch ==
    [][\A w \in ToolIds :
          LET call == tools'[w].call
              n == CacheOf(call.kind)
              key == _make_key(call.lat, call.lng, call.kw)
              i == IndexOf(caches[n].store, key)
              hit == i # 0 /\ now - caches[n].store[i].ts < caches[n].ttl
              r == frames'[w].result
              entry == [key |-> key, ts |-> now, value |-> w]
          IN /\ (tools[w].pc = "idle" /\ tools'[w].pc # "idle") =>
                    IF hit
                    THEN /\ tools'[w].pc = "returned"
                         /\ tools'[w].ret = caches[n].store[i].value
                         /\ "from_cache" \in DOMAIN frames'[tools'[w].ret].result
                         /\ frames'[tools'[w].ret].result.from_cache = TRUE
                         /\ frames'[w] = IdleFrame
                    ELSE /\ tools'[w].pc \in {"awaiting", "raised"}
                         /\ frames[w] = IdleFrame
                         /\ frames'[w].pc \in {"inflight", "raised"}
             /\ (tools[w].pc = "awaiting" /\ tools'[w].pc = "returned") =>
                    /\ tools'[w].ret = w
                    /\ frames'[w].pc = "done"
                    /\ r.success <=> entry \in Entries(caches'[n].store)
                    /\ ~r.success => caches' = caches
             /\ (tools'[w].pc = "returned" /\ tools'[w].ret # w) => frames'[w] = IdleFrame
      ]_vars

\* One tool call missed, fetched and stored its result; the other then hit,
\* issued no request and got that payload marked from_cache.
C6_Witness ==
    \E w1, w2 \in ToolIds :
        /\ w1 # w2
        /\ tools[w1].pc = "returned" /\ tools[w1].ret = w1
        /\ frames[w1].pc = "done" /\ Deref(w1).success
        /\ tools[w2].pc = "returned" /\ tools[w2].ret = w1
        /\ frames[w2] = IdleFrame
        /\ Deref(w1).from_cache

\* ---------------------------------------------------------------- explore_panoramic

\* headings = [(0, "North"), (90, "East"), (180, "South"), (270, "West")]
Headings == <<<<0, "North">>, <<90, "East">>, <<180, "South">>, <<270, "West">>>>

Legs == 1..Len(Headings)

\* The (lat, lng, pitch, fov) explore_panoramic is called with.
PanoCalls ==
    { [lat |-> 0, lng |-> 0, pitch |-> 0, fov |-> 90],
      [lat |-> 0, lng |-> 0, pitch |-> 100, fov |-> 10] }

IdlePano == [pc |-> "idle", args |-> <<>>, ret |-> <<>>]

InitPano ==
    /\ caches = [n \in {"overhead", "streetview"} |->
                    ImageCache(IF n = "overhead" THEN OverheadTtl ELSE StreetviewTtl,
                               GlobalMaxSize, n)]
    /\ now = 0
    /\ last = NoCall
    /\ api_key \in BOOLEAN
    /\ frames = [l \in Legs |-> IdleFrame]
    /\ hist = [l \in Legs |-> <<>>]
    /\ probe = FALSE
    /\ logging = NoLogging
    /\ session = NoSession
    /\ tools = <<>>
    /\ pano = IdlePano
    /\ http = NoHttp
    /\ calc = NoCalc

\* explore_panoramic up to the await: one get_street_view coroutine per
\* heading, handed to asyncio.gather, which schedules them as tasks.
PanoCall(a) ==
    /\ pano.pc = "idle"
    /\ frames' = [l \in Legs |->
                    [IdleFrame EXCEPT
                        !.pc = "ready",
                        !.call = ViewCall("street", a.lat, a.lng,
                                          <<<<"heading", Headings[l][1]>>,
                                            <<"pitch", a.pitch>>,
                                            <<"fov", a.fov>>>>, TRUE)]]
    /\ pano' = [pc |-> "gathering", args |-> a, ret |-> <<>>]
    /\ UNCHANGED <<cacheVars, api_key, hist, probe, serverVars, tools, http, calc>>

\* A variant of NoLegReady for a backoff sleep that holds the event loop:
\* no response is handled while a leg sleeps.
NoLegReadyNorAsleep == \A l \in Legs : frames[l].pc \notin {"ready", "sleep"}

\* The event loop runs the scheduled tasks in the order gather created them,
\* each up to its first request, before it handles any response.
NoLegReady == \A l \in Legs : frames[l].pc # "ready"

\* A variant of LegStart that looks the view up in streetview_cache first.
LegStartThroughCache(l) ==
    /\ frames[l].pc = "ready"
    /\ \A k \in 1..(l - 1) : frames[k].pc # "ready"
    /\ LET call == frames[l].call
           r == get(caches["streetview"], call.lat, call.lng, call.kw, now)
       IN /\ caches' = [caches EXCEPT !["streetview"] = r.cache]
          /\ frames' = [frames EXCEPT ![l] =
                           IF r.ret # None
                           THEN [@ EXCEPT !.pc = "done", !.result = [success |-> TRUE, from_cache |-> TRUE]]
                           ELSE StartView(@.call)]
          /\ http' = IF r.ret # None THEN http ELSE HttpAfterStart
    /\ UNCHANGED <<now, last, api_key, hist, probe, serverVars, callerVars>>

LegStart(l) ==
    /\ frames[l].pc = "ready"
    /\ \A k \in 1..(l - 1) : frames[k].pc # "ready"
    /\ frames' = [frames EXCEPT ![l] = StartView(@.call)]
    /\ http' = HttpAfterStart
    /\ UNCHANGED <<cacheVars, api_key, hist, probe, serverVars, callerVars>>

LegRespond(l, o, pil) ==
    /\ NoLegReady
    /\ Respond(l, o, pil)
    /\ UNCHANGED <<cacheVars, callerVars>>

\* A variant of LegSucceeded that only looks for raised exceptions.
LegNotRaised(fr) == fr.pc # "raised"

\* A leg counts as a success unless gather returned its exception or its
\* dict says otherwise (result.get("success", False)).
LegSucceeded(fr) ==
    /\ fr.pc # "raised"
    /\ "success" \in DOMAIN fr.result
    /\ fr.result.success

\* The entry appended to views for a leg: a new failure dict for a raised
\* exception, the leg's own dict with its direction set otherwise.
ViewEntry(fr, direction) ==
    IF fr.pc = "raised"
    THEN [success |-> FALSE, error |-> fr.result.msg, direction |-> direction]
    ELSE [direction |-> direction] @@ fr.result

\* A variant of GatherDone that is satisfied by the first leg to finish.
GatherFirstDone == \E l \in Legs : frames[l].pc \in {"done", "raised"}

\* asyncio.gather(*tasks, return_exceptions=True): its future is resolved when
\* the last of the tasks is done, whether it returned or raised.
GatherDone == \A l \in Legs : frames[l].pc \in {"done", "raised"}

\* gather returns once every leg has finished; explore_panoramic then builds
\* its result.
PanoFinish ==
    /\ pano.pc = "gathering"
    /\ GatherDone
    /\ frames' = [l \in Legs |->
                    IF frames[l].pc = "done"
                    THEN [frames[l] EXCEPT !.result = ViewEntry(frames[l], Headings[l][2])]
                    ELSE frames[l]]
    /\ pano' = [pano EXCEPT
                   !.pc = "returned",
                   !.ret = [success |-> \A l \in Legs : LegSucceeded(frames[l]),
                            views |-> [l \in Legs |-> ViewEntry(frames[l], Headings[l][2])],
                            description |-> <<"panoramic capture", pano.args.lat,
                                              pano.args.lng>>]]
    /\ UNCHANGED <<cacheVars, api_key, hist, probe, serverVars, tools, http, calc>>

NextPano ==
    \/ \E a \in PanoCalls : PanoCall(a)
    \/ \E l \in Legs : LegStart(l)
    \/ \E l \in Legs, o \in Outcomes, pil \in PilOutcomes : LegRespond(l, o, pil)
    \/ \E l \in Legs : Wake(l) /\ UNCHANGED <<cacheVars, callerVars>>
    \/ PanoFinish

SpecPano == InitPano /\ [][NextPano]_vars

\* What the event loop does for a panoramic call that has been made.
PanoProgress ==
    \/ \E l \in Legs : LegStart(l)
    \/ \E l \in Legs, o \in Outcomes, pil \in PilOutcomes : LegRespond(l, o, pil)
    \/ \E l \in Legs : Wake(l) /\ UNCHANGED <<cacheVars, callerVars>>
    \/ PanoFinish

\* The event loop keeps running: every request ends within the client's
\* timeout, every sleep is finite, ready tasks are run.
\* One panoramic call with the default pitch and fov, run to its end.
NextPanoLive ==
    \/ PanoCall([lat |-> 0, lng |-> 0, pitch |-> 0, fov |-> 90])
    \/ PanoProgress

SpecPanoLive == InitPano /\ [][NextPanoLive]_vars /\ WF_vars(PanoProgress)

\* ---------------------------------------------------------------- explore_panoramic: properties

\* What a leg came to: its view function returned a success dict.
LegOk(l) == frames[l].pc = "done" /\ frames[l].result.success

\* C10: explore_panoramic returns exactly 4 view entries, North, East, South,
\* West in that order, each tagged with its direction, whatever each leg came
\* to (success, failure result, raised exception); success is true iff all
\* four legs succeeded, and an entry carries an error iff its leg failed.
C10_PanoramicAggregate ==
    pano.pc = "returned" =>
        LET v == pano.ret.views
        IN /\ Len(v) = 4
           /\ <<v[1].direction, v[2].direction, v[3].direction, v[4].direction>>
                 = <<"North", "East", "South", "West">>
           /\ pano.ret.success <=> \A l \in 1..4 : LegOk(l)
           /\ \A l \in 1..4 : ("error" \in DOMAIN v[l]) <=> ~LegOk(l)
           /\ \A l \in 1..4 : v[l].success <=> LegOk(l)

\* Only the East leg failed: success = false, 4 entries, only East has an error.
C10_Witness ==
    /\ pano.pc = "returned"
    /\ ~pano.ret.success
    /\ Len(pano.ret.views) = 4
    /\ \A l \in {1, 3, 4} :
          pano.ret.views[l].success /\ "error" \notin DOMAIN pano.ret.views[l]
    /\ pano.ret.views[2].direction = "East"
    /\ ~pano.ret.views[2].success
    /\ "error" \in DOMAIN pano.ret.views[2]

\* A leg is started once its coroutine has run up to its first request (or
\* raised); it is finished once its coroutine is over.
LegStarted(l) == frames[l].pc \in {"inflight", "sleep", "done", "raised"}
LegFinished(l) == frames[l].pc \in {"done", "raised"}

\* C11: every leg has been started before a request attempt of any leg ends;
\* explore_panoramic returns only when all four legs are finished; a leg that
\* has failed or raised takes nothing away from the others: a started leg is
\* only ever moved by its own attempts, and every leg of a call in progress
\* finishes, after which the call returns.
C11_PanoStartedBeforeAnyEnds ==
    [][\A l \in Legs :
          (frames[l].pc = "inflight" /\ frames'[l].pc # "inflight") =>
              \A k \in Legs : LegStarted(k)
      ]_vars

C11_PanoLegsUndisturbed ==
    [][\A l \in Legs :
          /\ (frames[l].pc = "inflight" /\ frames'[l].pc # "inflight") =>
                 /\ frames'[l].pc \in {"sleep", "done"}
                 /\ \A k \in Legs \ {l} : frames'[k] = frames[k]
          /\ (frames[l].pc = "sleep" /\ frames'[l].pc # "sleep") =>
                 frames'[l].pc = "inflight"
          /\ (LegFinished(l) /\ pano.pc = "gathering") =>
                 (frames'[l] = frames[l] \/ pano'.pc = "returned")
      ]_vars

C11_PanoJoinsAll ==
    /\ C11_PanoStartedBeforeAnyEnds
    /\ C11_PanoLegsUndisturbed
    /\ [](pano.pc = "returned" => \A l \in Legs : LegFinished(l))
    /\ (pano.pc = "gathering") ~> (pano.pc = "returned" /\ \A l \in 1..4 : LegFinished(l))

\* The North leg has failed while the West leg is sleeping before a retry and
\* the call has not returned.
C11_Witness ==
    /\ pano.pc = "gathering"
    /\ frames[1].pc = "done" /\ ~frames[1].result.success
    /\ frames[2].pc = "inflight"
    /\ frames[3].pc = "done" /\ frames[3].result.success
    /\ frames[4].pc = "sleep"

\* ---------------------------------------------------------------- shutdown while fetching

\* Two direct view calls share the pooled client while the server may shut down.
ClientCalls ==
    { ViewCall("overhead", 0, 0, <<<<"zoom", 18>>, <<"map_type", "satellite">>>>, TRUE) }

InitClient ==
    /\ caches = <<>>
    /\ now = 0
    /\ last = NoCall
    /\ api_key = TRUE
    /\ frames = [f \in {"f1", "f2"} |-> IdleFrame]
    /\ hist = [f \in {"f1", "f2"} |-> <<>>]
    /\ probe = TRUE
    /\ logging = NoLogging
    /\ session = NoSession
    /\ tools = <<>>
    /\ pano = <<>>
    /\ http = NoHttp
    /\ calc = NoCalc

\* close_http_client up to its await: aclose() marks the client closed and
\* then waits for its connections to close. Without a client it does nothing.
close_http_client ==
    /\ http.closing = NoClient
    /\ http' = IF http.current # NoClient
               THEN [http EXCEPT !.closed = @ \cup {http.current},
                                 !.closing = http.current]
               ELSE http
    /\ UNCHANGED <<cacheVars, api_key, frames, hist, probe, serverVars, callerVars>>

\* aclose() returns and close_http_client sets _http_client = None.
close_http_client_end ==
    /\ http.closing # NoClient
    /\ http' = [http EXCEPT !.current = NoClient, !.closing = NoClient]
    /\ UNCHANGED <<cacheVars, api_key, frames, hist, probe, serverVars, callerVars>>

\* agent.cleanup, awaited by the server's lifespan on shutdown.
cleanup == close_http_client

NextClient ==
    \/ \E f \in DOMAIN frames, call \in ClientCalls : CallView(f, call)
    \/ \E f \in DOMAIN frames, o \in Outcomes, pil \in PilOutcomes :
          Respond(f, o, pil) /\ UNCHANGED <<cacheVars, callerVars>>
    \/ \E f \in DOMAIN frames : Wake(f) /\ UNCHANGED <<cacheVars, callerVars>>
    \/ cleanup
    \/ close_http_client_end

SpecClient == InitClient /\ [][NextClient]_vars

\* ---------------------------------------------------------------- the pooled client: properties

\* A step in which invocation f is handed its client by get_http_client.
GetsClient(f) == frames[f].client = NoClient /\ frames'[f].client # NoClient

\* C12: the client get_http_client returns is open; no client is made before
\* the first use; while the current client is open it is the one returned
\* and none is made; when there is none, or the current one is closed, a new
\* client is made and becomes the current one; close_http_client (which is
\* what cleanup runs) closes the current client and ends with no current
\* client.
C12_ClientNeverClosedWhenReturned ==
    /\ [][\A f \in DOMAIN frames :
             GetsClient(f) =>
                LET c == frames'[f].client
                IN /\ c \notin http'.closed
                   /\ http'.current = c
                   /\ IF http.current # NoClient /\ http.current \notin http.closed
                      THEN c = http.current /\ http' = http
                      ELSE /\ c = http.made + 1
                           /\ http'.made = c
                           /\ \A g \in DOMAIN frames : frames[g].client # c
         ]_vars
    /\ [][http'.made # http.made => \E f \in DOMAIN frames : GetsClient(f)]_vars
    /\ [][(http.closing = NoClient /\ http'.closing # NoClient) =>
             /\ http'.closing = http.current
             /\ http.current \in http'.closed
         ]_vars
    /\ [][(http.closing # NoClient /\ http'.closing = NoClient) =>
             /\ http'.current = NoClient
             /\ http.closing \in http'.closed
         ]_vars

\* One invocation still holds the first client, which has been closed, while
\* a later invocation was handed a second, open one.
C12_Witness ==
    /\ frames["f1"].client = 1
    /\ 1 \in http.closed
    /\ frames["f2"].client = 2
    /\ http.current = 2
    /\ 2 \notin http.closed

\* What a fetch may end in of its own: a success, an error status, an
\* exception other than a transient one, or a third transient failure.
EndsOfItsOwn(h) ==
    /\ Len(h) >= 1
    /\ \/ Succeeded(h[Len(h)])
       \/ ErrorStatus(h[Len(h)])
       \/ h[Len(h)].kind = "other"
       \/ Len(h) = 3 /\ \A i \in 1..3 : Transient(h[i])

\* C13: whatever the interleaving of close_http_client with the fetches in
\* flight, no request attempt is made on a closed client, and every fetch
\* ends by a response or by running out of retries.
C13_NoAttemptOnClosedClient ==
    \A f \in DOMAIN frames :
        /\ \A i \in 1..Len(hist[f]) : hist[f][i].kind # "closed"
        /\ frames[f].pc = "done" => EndsOfItsOwn(hist[f])

\* ---------------------------------------------------------------- missing credential

\* C14: without the maps key a view call, made by a cache-aware tool, issues
\* no request (it never gets past the key lookup: no attempt, no backoff
\* sleep, no client fetched), and no step changes a cache's stored entries.
C14_MissingKeyFailsFast ==
    [][~api_key =>
          /\ \A w \in ToolIds :
                /\ frames'[w].pc \in {"idle", "raised"}
                /\ frames'[w].attempts = 0
                /\ frames'[w].wait = 0
                /\ frames'[w].client = NoClient
                /\ tools'[w].pc \in {"idle", "raised"}
          /\ http' = http
          /\ \A n \in DOMAIN caches : caches'[n].store = caches[n].store
      ]_vars

\* Without the key both tools have been called, one for each kind of view,
\* and both calls are over.
C14_Witness ==
    /\ ~api_key
    /\ tools["c1"].pc = "raised" /\ tools["c1"].call.kind = "overhead"
    /\ tools["c2"].pc = "raised" /\ tools["c2"].call.kind = "street"
    /\ frames["c1"].pc = "raised" /\ frames["c2"].pc = "raised"
    /\ caches["overhead"].misses = 1 /\ caches["streetview"].misses = 1

\* C15: whatever the outcome, missing key included, the view functions and
\* the cache-aware tools return a result with a success flag and raise
\* nothing.
C15_AlwaysStructuredResult ==
    \A w \in ToolIds :
        /\ frames[w].pc # "raised"
        /\ tools[w].pc # "raised"
        /\ frames[w].pc = "done" => "success" \in DOMAIN frames[w].result
        /\ tools[w].pc = "returned" => "success" \in DOMAIN Deref(tools[w].ret)

\* ---------------------------------------------------------------- ownership of payloads

\* C16: the dict a tool call returned is never the object a cache stores, so
\* a result returned on a miss does not come to carry from_cache through a
\* later hit.
C16_PayloadNotAliased ==
    \A w \in ToolIds :
        tools[w].pc = "returned" =>
            /\ \A n \in DOMAIN caches : tools[w].ret \notin Stored(n)
            /\ tools[w].ret = w => "from_cache" \notin DOMAIN Deref(w)

\* ---------------------------------------------------------------- every way a result is produced

\* The three ways the application obtains results, side by side: direct view
\* calls, calls through the cache-aware tools, and a panoramic call.
InitViews == InitFetch \/ InitAgent \/ InitPano

NextViews ==
    \/ DOMAIN tools = {} /\ DOMAIN pano = {} /\ NextFetch
    \/ DOMAIN tools # {} /\ NextAgent
    \/ DOMAIN pano # {} /\ NextPano

SpecViews == InitViews /\ [][NextViews]_vars

\* A success payload or a failure payload, never both.
SuccessXorFailure(r) ==
    /\ "success" \in DOMAIN r
    /\ r.success => ("image_data" \in DOMAIN r /\ "error" \notin DOMAIN r)
    /\ ~r.success => ("error" \in DOMAIN r /\ "image_data" \notin DOMAIN r)

\* C17: every result returned by a view function or by a cache-aware tool,
\* and every view entry of a panoramic result, has image data and no error
\* when success = true, and an error and no image data when success = false.
C17_SuccessXorFailure ==
    /\ \A f \in DOMAIN frames :
          frames[f].pc = "done" => SuccessXorFailure(frames[f].result)
    /\ \A w \in DOMAIN tools :
          tools[w].pc = "returned" => SuccessXorFailure(Deref(tools[w].ret))
    /\ (DOMAIN pano # {} /\ pano.pc = "returned") =>
          \A l \in DOMAIN pano.ret.views : SuccessXorFailure(pano.ret.views[l])

\* A panoramic result with entries of both kinds.
C17_Witness ==
    /\ DOMAIN pano # {}
    /\ pano.pc = "returned"
    /\ pano.ret.views[1].success
    /\ "image_data" \in DOMAIN pano.ret.views[1]
    /\ ~pano.ret.views[4].success
    /\ "error" \in DOMAIN pano.ret.views[4]

\* ---------------------------------------------------------------- normalization of the arguments

\* Arguments around every threshold of the normalization: zoom about [0, 21],
\* headings below 0, at both ends of each 45 degree band and past 360,
\* pitch about [-90, 90] and [-15, 15], fov about [20, 120].
ZoomArgs == (-2)..23
HeadingArgs ==
    {-361, -360, -359, -90, -1, 360, 361, 370, 720}
        \cup {45 * k : k \in 0..7} \cup {45 * k + 44 : k \in 0..7}
PitchArgs == {-91, -90, -16, -15, 0, 15, 16, 90, 91, 100}
FovArgs == {10, 19, 20, 90, 120, 121}

NormCalls ==
    {ViewCall("overhead", 0, 0, <<<<"zoom", z>>, <<"map_type", "roadmap">>>>, TRUE) :
        z \in ZoomArgs}
    \cup
    {ViewCall("street", 0, 0, <<<<"heading", a[1]>>, <<"pitch", a[2]>>, <<"fov", a[3]>>>>,
              TRUE) : a \in HeadingArgs \X PitchArgs \X FovArgs}

NextNormalize ==
    \/ \E f \in DOMAIN frames, call \in NormCalls : CallView(f, call)
    \/ \E f \in DOMAIN frames, o \in Outcomes, pil \in PilOutcomes :
          Respond(f, o, pil) /\ UNCHANGED <<cacheVars, callerVars>>
    \/ \E f \in DOMAIN frames : Wake(f) /\ UNCHANGED <<cacheVars, callerVars>>

SpecNormalize == InitFetch /\ [][NextNormalize]_vars

\* x clamped into [lo, hi] is y.
IsClamped(lo, hi, x, y) ==
    /\ lo <= y /\ y <= hi
    /\ (lo <= x /\ x <= hi) => y = x
    /\ x < lo => y = lo
    /\ x > hi => y = hi

\* The parameters P are the normalized arguments of call.
IsNormalized(call, P) ==
    IF call.kind = "overhead"
    THEN IsClamped(0, 21, Arg(call.kw, "zoom"), P.zoom)
    ELSE /\ 0 <= P.heading /\ P.heading < 360
         /\ \E k \in (-3)..3 : Arg(call.kw, "heading") = P.heading + 360 * k
         /\ IsClamped(-90, 90, Arg(call.kw, "pitch"), P.pitch)
         /\ IsClamped(20, 120, Arg(call.kw, "fov"), P.fov)

\* C18: the parameters of every request, and the parameters echoed in every
\* successful result, are the normalized arguments: zoom clamped into
\* [0, 21]; heading congruent to the argument modulo 360 and in [0, 360),
\* for negative arguments too; pitch clamped into [-90, 90] and fov into
\* [20, 120]; an argument in range is passed on as it is.
C18_ParametersNormalized ==
    \A f \in DOMAIN frames :
        LET fr == frames[f]
        IN /\ fr.pc \in {"inflight", "sleep", "done"} =>
                 IsNormalized(fr.call, RequestParams(fr.call))
           /\ (fr.pc = "done" /\ fr.result.success) =>
                 IsNormalized(fr.call, fr.result.parameters)

\* heading = 370 has come back as heading 10, facing North.
C18_Witness ==
    \E f \in DOMAIN frames :
        /\ frames[f].pc = "done"
        /\ frames[f].call.kind = "street"
        /\ Arg(frames[f].call.kw, "heading") = 370
        /\ frames[f].result.success
        /\ frames[f].result.parameters.heading = 10
        /\ frames[f].result.parameters.facing = "North"

CompassNames ==
    <<"North", "Northeast", "East", "Southeast", "South", "Southwest", "West", "Northwest">>

\* C19: in a successful street view result the compass label of heading h is
\* the k-th name for 45k <= h < 45(k+1), and the pitch descriptor is 'eye
\* level' iff -15 <= pitch <= 15, 'looking up' iff pitch > 15 and 'looking
\* down' iff pitch < -15.
C19_CompassAndPitchLabels ==
    \A f \in DOMAIN frames :
        LET fr == frames[f]
            P == fr.result.parameters
            pitch_desc == fr.result.description[4]
        IN (fr.pc = "done" /\ fr.call.kind = "street" /\ fr.result.success) =>
              /\ \A k \in 0..7 :
                    (45 * k <= P.heading /\ P.heading < 45 * (k + 1))
                        <=> P.facing = CompassNames[k + 1]
              /\ fr.result.description[2] = P.facing
              /\ pitch_desc = "eye level" <=> (-15 <= P.pitch /\ P.pitch <= 15)
              /\ pitch_desc = "looking up" <=> P.pitch > 15
              /\ pitch_desc = "looking down" <=> P.pitch < -15

\* The first heading of the last band, looking down.
C19_Witness ==
    \E f \in DOMAIN frames :
        /\ frames[f].pc = "done"
        /\ frames[f].call.kind = "street"
        /\ frames[f].result.success
        /\ frames[f].result.parameters.heading = 315
        /\ frames[f].result.parameters.facing = "Northwest"
        /\ frames[f].result.parameters.pitch = -16
        /\ frames[f].result.description[4] = "looking down"

\* ---------------------------------------------------------------- ImageCache.get: what it changes

\* C20: a get call has one of three outcomes. Present and unexpired: hits
\* grows by 1, misses and the store stay, the payload is returned. Present
\* and expired: that entry alone leaves the store, misses grows by 1, hits
\* stays, a miss is returned. Absent: misses grows by 1, hits and the store
\* stay, a miss is returned. No entry is inserted, and nothing but the store
\* and the two counters changes.
C20_GetOutcomes ==
    [][\A n \in DOMAIN caches :
          LET pre == caches[n]
              post == caches'[n]
              i == IndexOf(pre.store, last'.key)
              present == i # 0
              expired == now - pre.store[i].ts >= pre.ttl
          IN IsCall("get", n) =>
                /\ IF present /\ ~expired
                   THEN /\ post.hits = pre.hits + 1
                        /\ post.misses = pre.misses
                        /\ post.store = pre.store
                        /\ last'.ret = pre.store[i].value
                        /\ last'.ret # None
                   ELSE IF present
                   THEN /\ post.hits = pre.hits
                        /\ post.misses = pre.misses + 1
                        /\ Len(post.store) = Len(pre.store) - 1
                        /\ Entries(post.store) = Entries(pre.store) \ {pre.store[i]}
                        /\ last'.ret = None
                   ELSE /\ post.hits = pre.hits
                        /\ post.misses = pre.misses + 1
                        /\ post.store = pre.store
                        /\ last'.ret = None
                /\ Entries(post.store) \subseteq Entries(pre.store)
                /\ post.ttl = pre.ttl /\ post.max_size = pre.max_size
                /\ \A m \in DOMAIN caches \ {n} : caches'[m] = caches[m]
      ]_vars

\* A get has taken its expired entry out of a store of two and left the
\* other entry in place.
C20_Witness ==
    \E n \in DOMAIN caches :
        /\ last.op = "get" /\ last.cache = n
        /\ last.ret = None
        /\ last.removed = {last.key}
        /\ Len(caches[n].store) = 1
        /\ caches[n].misses = 1 /\ caches[n].hits = 0

\* ---------------------------------------------------------------- ImageCache.stats

\* The calls made on a cache whose statistics are read between them.
StatInputs ==
    { <<0, 0, <<<<"zoom", 18>>, <<"map_type", "satellite">>>>>>,
      <<12, 0, <<<<"zoom", 18>>, <<"map_type", "satellite">>>>>> }

DoStats(n) ==
    /\ calc' = [fn |-> "stats", args |-> <<n>>, ret |-> stats(caches[n])]
    /\ UNCHANGED <<cacheVars, fetchVars, serverVars, tools, pano>>

NextStats ==
    \/ Tick
    \/ \E n \in DOMAIN caches, a \in StatInputs : DoGet(n, a[1], a[2], a[3])
    \/ \E n \in DOMAIN caches, a \in StatInputs : DoSet(n, a[1], a[2], "v1", a[3])
    \/ \E n \in DOMAIN caches, a \in StatInputs : DoInvalidate(n, a[1], a[2], a[3])
    \/ \E n \in DOMAIN caches : DoClear(n)
    \/ \E n \in DOMAIN caches : DoStats(n)

SpecStats == InitCache /\ [][NextStats]_vars

C22_InvalidateRemovesOne ==
    [][\A n \in DOMAIN caches :
          LET pre == caches[n]
              post == caches'[n]
              k == last'.key
              others(st) == SelectSeq(st, LAMBDA e : e.key # k)
          IN IsCall("invalidate", n) =>
                /\ last'.ret = "True" <=> k \in Keys(pre.store)
                /\ last'.ret \in {"True", "False"}
                /\ k \notin Keys(post.store)
                /\ post.store = others(pre.store)
                /\ post.hits = pre.hits /\ post.misses = pre.misses
                /\ post.ttl = pre.ttl /\ post.max_size = pre.max_size
                /\ (last.op = "invalidate" /\ last.cache = n /\ last.key = k) =>
                      last'.ret = "False"
      ]_vars

\* At the last clock reading an entry has been invalidated, with true
\* returned, out of a store of two; the other entry is still there.
C22_Witness ==
    \E n \in DOMAIN caches :
        /\ last.op = "invalidate" /\ last.cache = n
        /\ last.ret = "True"
        /\ last.removed = {last.key}
        /\ Len(caches[n].store) = 1
        /\ caches[n].ttl = 1
        /\ caches[n].store[1].ts = 2
        /\ last.key = _make_key(0, 0, <<<<"zoom", 18>>, <<"map_type", "satellite">>>>)

\* ---------------------------------------------------------------- the two module-level caches

\* The calls made on each of the two caches: (lat, lng, params).
InputsOf(n) ==
    IF n = "overhead"
    THEN { <<0, 0, <<<<"zoom", 18>>, <<"map_type", "satellite">>>>>>,
           <<0, 0, <<<<"zoom", 21>>, <<"map_type", "satellite">>>>>> }
    ELSE { <<0, 0, <<<<"heading", 0>>, <<"pitch", 0>>, <<"fov", 90>>>>>> }

InitTwo ==
    /\ caches = [n \in {"overhead", "streetview"} |->
                    ImageCache(IF n = "overhead" THEN OverheadTtl ELSE StreetviewTtl,
                               GlobalMaxSize, n)]
    /\ now = 0
    /\ last = NoCall
    /\ api_key = TRUE
    /\ frames = <<>>
    /\ hist = <<>>
    /\ probe = FALSE
    /\ logging = NoLogging
    /\ session = NoSession
    /\ tools = <<>>
    /\ pano = <<>>
    /\ http = NoHttp
    /\ calc = NoCalc

NextTwo ==
    \/ Elapse
    \/ \E n \in DOMAIN caches : \E a \in InputsOf(n) : DoGet(n, a[1], a[2], a[3])
    \/ \E n \in DOMAIN caches : \E a \in InputsOf(n) : DoSet(n, a[1], a[2], "v1", a[3])
    \/ \E n \in DOMAIN caches : \E a \in InputsOf(n) : DoInvalidate(n, a[1], a[2], a[3])
    \/ \E n \in DOMAIN caches : DoClear(n)
    \/ clear_all_caches

SpecTwo == InitTwo /\ [][NextTwo]_vars

Cleared(c) == c.store = <<>> /\ c.hits = 0 /\ c.misses = 0

\* C23: clear leaves its cache with no entry and both counters at 0, with
\* ttl and max_size as they were, and leaves the other cache as it was;
\* clear_all_caches leaves both caches cleared; a get, set, invalidate or
\* clear on one cache changes nothing in the other.
C23_ClearAndIndependence ==
    [][/\ \A n \in DOMAIN caches :
             /\ IsCall("clear", n) =>
                   /\ Cleared(caches'[n])
                   /\ caches'[n].ttl = caches[n].ttl
                   /\ caches'[n].max_size = caches[n].max_size
             /\ (last' # last /\ last'.cache = n) =>
                   \A m \in DOMAIN caches \ {n} : caches'[m] = caches[m]
       /\ clear_all_caches =>
             \A n \in DOMAIN caches :
                /\ Cleared(caches'[n])
                /\ caches'[n].ttl = caches[n].ttl
                /\ caches'[n].max_size = caches[n].max_size
      ]_vars

\* overhead_cache has just been cleared while streetview_cache keeps its
\* entry and its counted hit.
C23_Witness ==
    /\ last.op = "clear" /\ last.cache = "overhead"
    /\ last.removed # {}
    /\ Cleared(caches["overhead"])
    /\ Len(caches["streetview"].store) = 1
    /\ caches["streetview"].hits = 1

\* ---------------------------------------------------------------- ImageCache._make_key

\* Arguments of _make_key: coordinates (in 1e-7 degrees) on both sides of
\* zero and of a sixth decimal, and keyword parameters that differ in order,
\* in a value, in a name and in number.
KeyArgs ==
    {-12, -4, -1, 0, 1, 4, 12}
    \X {0, 4}
    \X { <<<<"zoom", 18>>, <<"map_type", "satellite">>>>,
         <<<<"map_type", "satellite">>, <<"zoom", 18>>>>,
         <<<<"zoom", 21>>, <<"map_type", "satellite">>>>,
         <<<<"zoom", 18>>>>,
         <<<<"heading", 18>>>> }

\* The keys of two calls are computed.
MakeKeys(a, b) ==
    /\ calc = NoCalc
    /\ calc' = [fn |-> "_make_key", args |-> <<a, b>>,
                ret |-> <<_make_key(a[1], a[2], a[3]), _make_key(b[1], b[2], b[3])>>]
    /\ UNCHANGED <<cacheVars, fetchVars, serverVars, tools, pano>>

NextKey == \E a \in KeyArgs, b \in KeyArgs : MakeKeys(a, b)

SpecKey == InitCache /\ [][NextKey]_vars

\* x rounded to the sixth decimal, as a number (in 1e-6 degrees).
Rounded6(x) == IF x >= 0 THEN (x + 5) \div 10 ELSE -((5 - x) \div 10)

ParamPairs(params) == {params[i] : i \in 1..Len(params)}

\* C24: two calls have the same key iff their latitudes round to the same
\* sixth decimal, their longitudes do, and their parameters are the same
\* set of (name, value) pairs.
C24_KeyOfRoundedAndParams ==
    calc.fn = "_make_key" =>
        LET a == calc.args[1]
            b == calc.args[2]
        IN (calc.ret[1] = calc.ret[2]) <=>
              /\ Rounded6(a[1]) = Rounded6(b[1])
              /\ Rounded6(a[2]) = Rounded6(b[2])
              /\ ParamPairs(a[3]) = ParamPairs(b[3])

\* ---------------------------------------------------------------- compression fallback

\* C25: when the compression step is unavailable or raises, a fetch whose
\* request succeeded still returns success = true, and the image it returns
\* is exactly the response body (base64-encoded as every image is); the
\* failed compression never makes the result a failure.
C25_CompressionFallback ==
    [][\A f \in DOMAIN frames, o \in Outcomes, pil \in PilOutcomes \ {"ok"} :
          (Respond(f, o, pil) /\ Succeeded(o) /\ frames[f].call.compress) =>
              /\ frames'[f].pc = "done"
              /\ frames'[f].result.success
              /\ "error" \notin DOMAIN frames'[f].result
              /\ frames'[f].result.image_data = b64encode("png")]_vars

\* A call that asked for compression returned the response body as it came.
C25_Witness ==
    \E f \in DOMAIN frames :
        /\ frames[f].pc = "done"
        /\ frames[f].call.compress
        /\ Len(hist[f]) >= 1
        /\ Succeeded(hist[f][Len(hist[f])])
        /\ frames[f].result.success
        /\ frames[f].result.image_data = b64encode("png")

\* ---------------------------------------------------------------- the service under load

\* Street views fetched earlier, one per latitude step, each by a call of
\* its own: streetview_cache is full when the scenario starts.
EarlierIds == {"old" \o ToString(i) : i \in 1..GlobalMaxSize}
EarlierCall(i) ==
    ViewCall("street", 1000 * i, 0, <<<<"heading", 0>>, <<"pitch", 0>>, <<"fov", 90>>>>, TRUE)
EarlierFrame(i) ==
    [IdleFrame EXCEPT !.pc = "done", !.call = EarlierCall(i),
                      !.result = SuccessResult(EarlierCall(i), "png", "ok"),
                      !.client = get_http_client(NoHttp).ret]
EarlierStore ==
    [i \in 1..GlobalMaxSize |->
        [key |-> _make_key(EarlierCall(i).lat, EarlierCall(i).lng, EarlierCall(i).kw),
         ts |-> 0, value |-> "old" \o ToString(i)]]

InitServe ==
    /\ caches = [n \in {"overhead", "streetview"} |->
                    IF n = "overhead"
                    THEN ImageCache(OverheadTtl, GlobalMaxSize, n)
                    ELSE [ImageCache(StreetviewTtl, GlobalMaxSize, n)
                             EXCEPT !.store = EarlierStore, !.misses = GlobalMaxSize]]
    /\ now = 0
    /\ last = NoCall
    /\ api_key = TRUE
    /\ frames = [f \in ToolIds \cup EarlierIds |->
                    IF f \in ToolIds THEN IdleFrame
                    ELSE EarlierFrame(CHOOSE i \in 1..GlobalMaxSize : f = "old" \o ToString(i))]
    /\ hist = [f \in ToolIds |-> <<>>]
    /\ probe = FALSE
    /\ logging = NoLogging
    /\ session = NoSession
    /\ tools = [w \in ToolIds |-> IdleTool]
    /\ pano = <<>>
    /\ http = get_http_client(NoHttp).http
    /\ calc = NoCalc

\* get_all_cache_stats (GET /metrics).
get_all_cache_stats ==
    /\ calc' = [fn |-> "get_all_cache_stats", args |-> <<>>,
                ret |-> [n \in DOMAIN caches |-> stats(caches[n])]]
    /\ UNCHANGED <<cacheVars, fetchVars, serverVars, tools, pano>>

\* The calls made under load: two callers may ask for the same street view.
ServeCalls == {c \in ToolCalls : c.kind = "overhead" \/ Arg(c.kw, "heading") = 370}

\* How the requests under load end: well, rate limited, or timed out.
ServeOutcomes ==
    {o \in Outcomes : o.kind = "timeout" \/ (o.kind = "response" /\ o.status \in {200, 429})}

NextServe ==
    \/ \E w \in ToolIds, c \in ServeCalls : CachedCall(w, c)
    \/ \E w \in ToolIds, o \in ServeOutcomes : ToolRespond(w, o, "ok")
    \/ \E w \in ToolIds : Wake(w) /\ UNCHANGED <<cacheVars, callerVars>>
    \/ get_all_cache_stats
    \/ clear_all_caches
    \/ Elapse

SpecServe == InitServe /\ [][NextServe]_vars

\* The states one whole operation of a tool, or a clear, can take cache n to.
WholeOps(n) ==
    {caches[n], clear(caches[n])}
    \cup {get(caches[n], c.lat, c.lng, c.kw, now).cache : c \in ServeCalls}
    \cup {set(caches[n], c.lat, c.lng, w, c.kw, now) : c \in ServeCalls, w \in ToolIds}

\* No entry leaves cache n in a step except in a clear, together with the
\* entry stored in its place, or as an expired entry with the miss counted.
NothingHalfDone(n) ==
    LET gone == Entries(caches[n].store) \ Entries(caches'[n].store)
        came == Entries(caches'[n].store) \ Entries(caches[n].store)
        counted == caches'[n].hits + caches'[n].misses - caches[n].hits - caches[n].misses
    IN (gone # {} /\ caches'[n] # clear(caches[n])) =>
          \/ /\ Cardinality(came) = 1
             /\ \A e \in came : e.ts = now /\ e.value \in ToolIds
             /\ counted = 0
          \/ /\ came = {}
             /\ Cardinality(gone) = 1
             /\ \A e \in gone : ~Fresh(caches[n], e.ts, now)
             /\ caches'[n].misses = caches[n].misses + 1
             /\ caches'[n].hits = caches[n].hits

\* C26: with tool calls, stats requests and clear requests interleaving at
\* the network suspension points, every step changes a cache by one whole
\* get, set or clear (an eviction is never seen without the insertion it
\* made room for, nor an expiry deletion without its miss count); no cache
\* ever holds more than max_size entries, nor a payload without
\* success = true, and no stats request reports a size above max_size.
C26_CacheOpsAtomic ==
    /\ [](\A n \in DOMAIN caches :
             /\ Len(caches[n].store) <= caches[n].max_size
             /\ \A ref \in Stored(n) : ShouldCache(Deref(ref)))
    /\ [](calc.fn = "get_all_cache_stats" =>
             \A n \in DOMAIN caches : calc.ret[n].size <= calc.ret[n].max_size)
    /\ [][\A n \in DOMAIN caches :
             /\ caches'[n] \in WholeOps(n)
             /\ NothingHalfDone(n)]_vars

\* The full street view cache has taken in the result of one tool call,
\* in place of its oldest entry, while the other tool call is suspended in
\* its request and a stats request has been answered.
C26_Witness ==
    /\ Len(caches["streetview"].store) = GlobalMaxSize
    /\ "old1" \notin Stored("streetview")
    /\ "c1" \in Stored("streetview")
    /\ tools["c2"].pc = "awaiting"
    /\ calc.fn = "get_all_cache_stats"
    /\ calc.ret["streetview"].size = GlobalMaxSize

\* ---------------------------------------------------------------- backoff and the other requests

\* C27: while one fetch is in a retry backoff sleep, every other fetch
\* goes on: its request in flight can end, in any outcome (and so it can be
\* retried and can complete), and its own backoff sleep can end; the sleep
\* of one request holds up no attempt of another.
C27_BackoffDoesNotBlock ==
    \A l1 \in DOMAIN frames :
        frames[l1].pc = "sleep" =>
            \A l2 \in DOMAIN frames \ {l1} :
                /\ frames[l2].pc = "inflight" =>
                      \A o \in Outcomes : ENABLED LegRespond(l2, o, "ok")
                /\ frames[l2].pc = "sleep" =>
                      ENABLED (Wake(l2) /\ UNCHANGED <<cacheVars, callerVars>>)

\* The first leg is in the sleep after its first attempt; meanwhile the
\* second leg is at its third attempt and the third has completed.
C27_Witness ==
    /\ DOMAIN pano # {}
    /\ frames[1].pc = "sleep" /\ frames[1].attempts = 1
    /\ frames[2].pc = "inflight" /\ frames[2].attempts = 3
    /\ frames[3].pc = "done"

\* ---------------------------------------------------------------- explore_panoramic and the caches

\* The street views the agent cached before the panoramic call: the north
\* view of each panoramic call, as cached_get_street_view stores it.
CachedNorthViews ==
    [i \in 1..2 |->
        [key |-> _make_key(0, 0, <<<<"heading", 0>>,
                                   <<"pitch", IF i = 1 THEN 0 ELSE 100>>,
                                   <<"fov", IF i = 1 THEN 90 ELSE 10>>>>),
         ts |-> 0, value |-> "earlier"]]

InitPanoCached ==
    /\ caches = [n \in {"overhead", "streetview"} |->
                    IF n = "overhead"
                    THEN ImageCache(OverheadTtl, GlobalMaxSize, n)
                    ELSE [ImageCache(StreetviewTtl, GlobalMaxSize, n)
                             EXCEPT !.store = CachedNorthViews, !.misses = 2]]
    /\ now = 0
    /\ last = NoCall
    /\ api_key \in BOOLEAN
    /\ frames = [l \in Legs |-> IdleFrame]
    /\ hist = [l \in Legs |-> <<>>]
    /\ probe = FALSE
    /\ logging = NoLogging
    /\ session = NoSession
    /\ tools = <<>>
    /\ pano = IdlePano
    /\ http = NoHttp
    /\ calc = NoCalc

SpecPanoCached == InitPanoCached /\ [][NextPano]_vars

\* The street view of leg l is in streetview_cache, fresh.
LegIsCached(l) ==
    LET call == frames[l].call
        i == IndexOf(caches["streetview"].store, _make_key(call.lat, call.lng, call.kw))
    IN i # 0 /\ Fresh(caches["streetview"], caches["streetview"].store[i].ts, now)

\* C28: explore_panoramic neither reads nor writes a cache: the entries
\* and the hit and miss counters of overhead_cache and streetview_cache are
\* the same after every step of a call as before; each of its 4 legs, once
\* it runs, issues a request of its own when the key is configured (and
\* raises when it is not), also when the same street view is cached, and
\* no view of the result is marked from_cache.
C28_PanoBypassesCaches ==
    /\ [][/\ caches' = caches
          /\ \A l \in Legs :
                (frames[l].pc = "ready" /\ frames'[l].pc # "ready") =>
                    IF api_key
                    THEN frames'[l].pc = "inflight" /\ frames'[l].attempts = 1
                    ELSE frames'[l].pc = "raised"]_vars
    /\ [](pano.pc = "returned" =>
             /\ DOMAIN pano.ret.views = Legs
             /\ \A l \in Legs : "from_cache" \notin DOMAIN pano.ret.views[l])

\* A panoramic call has returned four fetched views although its north
\* view was in streetview_cache, which is as it was.
C28_Witness ==
    /\ pano.pc = "returned"
    /\ LegIsCached(1)
    /\ \A l \in Legs : frames[l].pc = "done" /\ pano.ret.views[l].success
    /\ caches["streetview"].hits = 0
    /\ caches["streetview"].misses = 2

\* ---------------------------------------------------------------- proximity: distance

\* Floating point numbers are modelled as fixed point numbers, in units of
\* 1 / Scale, with every product and quotient rounded to the nearest unit,
\* halves away from zero: like IEEE rounding, the same for x and -x.
Scale == 10000

RoundDiv(a, b) ==
    IF a >= 0 THEN (a + b \div 2) \div b ELSE -((b \div 2 - a) \div b)

Mul(x, y) == RoundDiv(x * y, Scale)

\* math.pi
Pi == (31416 * Scale) \div 10000

\* math.radians, of a whole number of degrees.
radians(deg) == RoundDiv(deg * Pi, 180)

\* The terms term - term x^2 / ((n+1)(n+2)) + ... of the sine (from term = x,
\* n = 1) and cosine (from term = 1, n = 0) series, down to the first that
\* rounds to zero.
RECURSIVE Series(_, _, _)
Series(term, x, n) ==
    IF term = 0 THEN 0
    ELSE term + Series(-RoundDiv(Mul(RoundDiv(Mul(term, x), n + 1), x), n + 2), x, n + 2)

\* math.sin, for -pi <= x <= pi.
sin(x) == Series(x, x, 1)

\* math.cos, for -pi/2 <= x <= pi/2.
cos(x) == Series(Scale, x, 0)

RECURSIVE RootBetween(_, _, _)
RootBetween(n, lo, hi) ==
    IF lo >= hi THEN lo
    ELSE LET mid == (lo + hi + 1) \div 2
         IN IF mid * mid <= n THEN RootBetween(n, mid, hi) ELSE RootBetween(n, lo, mid - 1)

\* math.sqrt, for 0 <= v <= 2.
sqrt(v) == RootBetween(v * Scale, 0, 2 * Scale)

\* pow / n - pow t^2 / (n+2) + ...: the arctangent series.
RECURSIVE ArcSeries(_, _, _)
ArcSeries(pow, tt, n) ==
    IF pow = 0 THEN 0 ELSE RoundDiv(pow, n) - ArcSeries(Mul(pow, tt), tt, n + 2)

\* The arctangent of 0 <= t <= 1: above tan(pi / 8), pi / 4 is taken off.
ArcTan(t) ==
    LET u == IF t > (4142 * Scale) \div 10000 THEN RoundDiv((t - Scale) * Scale, t + Scale) ELSE t
        base == IF u = t THEN 0 ELSE RoundDiv(Pi, 4)
    IN base + ArcSeries(u, Mul(u, u), 1)

\* math.atan2(y, x), for y >= 0 and x >= 0.
atan2(y, x) ==
    IF y = 0 THEN 0
    ELSE IF y <= x THEN ArcTan(RoundDiv(y * Scale, x))
    ELSE RoundDiv(Pi, 2) - ArcTan(RoundDiv(x * Scale, y))

\* R = 6371e3, in kilometres.
EarthRadiusKm == 6371

\* The body of calculate_haversine_distance after the conversions to radians:
\* the distance in metres, or the ValueError of math.sqrt for 1 - a < 0.
HaversineOfRadians(phi1, phi2, dphi, dlambda) ==
    LET s1 == sin(RoundDiv(dphi, 2))
        s2 == sin(RoundDiv(dlambda, 2))
        a == Mul(s1, s1) + Mul(Mul(cos(phi1), cos(phi2)), Mul(s2, s2))
    IN IF 1 * Scale - a < 0
       THEN [raised |-> TRUE, value |-> 0]
       ELSE [raised |-> FALSE,
             value |-> RoundDiv(EarthRadiusKm * (2 * atan2(sqrt(a), sqrt(1 * Scale - a))),
                                Scale \div 1000)]

\* A variant of calculate_haversine_distance that takes the cosine of the
\* first latitude twice.
calculate_haversine_distance_first_latitude(lat1, lon1, lat2, lon2) ==
    HaversineOfRadians(radians(lat1), radians(lat1),
                       radians(lat2 - lat1), radians(lon2 - lon1))

\* calculate_haversine_distance, of whole degrees.
calculate_haversine_distance(lat1, lon1, lat2, lon2) ==
    HaversineOfRadians(radians(lat1), radians(lat2),
                       radians(lat2 - lat1), radians(lon2 - lon1))

\* ---------------------------------------------------------------- proximity: relative direction

\* Angles are counted in half degrees, so that 22.5 degrees is 45 and the
\* 360 of the modulus is 720.
FullTurn == 720

DirectionLabels ==
    <<"directly AHEAD",
      "AHEAD and to your RIGHT (2 o'clock)",
      "to your RIGHT (3 o'clock)",
      "BEHIND and to your RIGHT (4 o'clock)",
      "directly BEHIND you",
      "BEHIND and to your LEFT (8 o'clock)",
      "to your LEFT (9 o'clock)",
      "AHEAD and to your LEFT (10 o'clock)">>

\* A variant of get_relative_direction whose sectors take in their lower
\* end and leave out their upper end.
get_relative_direction_lower_inclusive(user_heading, bearing_to_dest) ==
    LET relative == (bearing_to_dest - user_heading + FullTurn) % FullTurn
    IN IF relative < 45 \/ relative >= 675 THEN DirectionLabels[1]
       ELSE IF 45 <= relative /\ relative < 135 THEN DirectionLabels[2]
       ELSE IF 135 <= relative /\ relative < 225 THEN DirectionLabels[3]
       ELSE IF 225 <= relative /\ relative < 315 THEN DirectionLabels[4]
       ELSE IF 315 <= relative /\ relative < 405 THEN DirectionLabels[5]
       ELSE IF 405 <= relative /\ relative < 495 THEN DirectionLabels[6]
       ELSE IF 495 <= relative /\ relative < 585 THEN DirectionLabels[7]
       ELSE DirectionLabels[8]

\* get_relative_direction, on half degrees.
get_relative_direction(user_heading, bearing_to_dest) ==
    LET relative == (bearing_to_dest - user_heading + FullTurn) % FullTurn
    IN IF relative <= 45 \/ relative > 675 THEN DirectionLabels[1]
       ELSE IF 45 < relative /\ relative <= 135 THEN DirectionLabels[2]
       ELSE IF 135 < relative /\ relative <= 225 THEN DirectionLabels[3]
       ELSE IF 225 < relative /\ relative <= 315 THEN DirectionLabels[4]
       ELSE IF 315 < relative /\ relative <= 405 THEN DirectionLabels[5]
       ELSE IF 405 < relative /\ relative <= 495 THEN DirectionLabels[6]
       ELSE IF 495 < relative /\ relative <= 585 THEN DirectionLabels[7]
       ELSE DirectionLabels[8]

\* The user's headings (0, 22.5, 135.5 and 359.5 degrees), each with every
\* bearing in half degree steps.
DirectionArgs == {0, 45, 271, 719} \X (0..(FullTurn - 1))

RelativeDirection(h, b) ==
    /\ calc = NoCalc
    /\ calc' = [fn |-> "get_relative_direction", args |-> <<h, b>>,
                ret |-> get_relative_direction(h, b)]
    /\ UNCHANGED <<cacheVars, fetchVars, serverVars, tools, pano>>

\* The points (degrees) distances are taken between: poles, equator, date
\* line, and two cities.
GeoPoints == {-90, -34, 0, 49, 90} \X {-180, -58, 0, 2, 180}

\* The distance from p to q, from q to p, and from p to p.
Distances(p, q) ==
    /\ calc = NoCalc
    /\ calc' = [fn |-> "calculate_haversine_distance", args |-> <<p, q>>,
                ret |-> <<calculate_haversine_distance(p[1], p[2], q[1], q[2]),
                          calculate_haversine_distance(q[1], q[2], p[1], p[2]),
                          calculate_haversine_distance(p[1], p[2], p[1], p[2])>>]
    /\ UNCHANGED <<cacheVars, fetchVars, serverVars, tools, pano>>

\* threshold_meters: float = 50.0
DefaultThreshold == 50

\* A variant of is_immediate_vicinity that leaves the threshold itself out.
is_immediate_vicinity_strict(lat1, lon1, lat2, lon2, threshold_meters) ==
    LET distance == calculate_haversine_distance(lat1, lon1, lat2, lon2)
    IN IF distance.raised THEN distance
       ELSE [raised |-> FALSE, value |-> distance.value < threshold_meters]

\* is_immediate_vicinity: the boolean returned, or the exception of the
\* distance computation passed on.
is_immediate_vicinity(lat1, lon1, lat2, lon2, threshold_meters) ==
    LET distance == calculate_haversine_distance(lat1, lon1, lat2, lon2)
    IN IF distance.raised THEN distance
       ELSE [raised |-> FALSE, value |-> distance.value <= threshold_meters]

\* get_proximity_info: of the dict returned, the distance (whole metres
\* here) and is_adjacent. The bearing, the relative direction and the
\* wording of the distance, which is_adjacent does not depend on, are left
\* out.
get_proximity_info(origin_lat, origin_lon, dest_lat, dest_lon) ==
    LET distance == calculate_haversine_distance(origin_lat, origin_lon, dest_lat, dest_lon)
    IN IF distance.raised THEN distance
       ELSE [raised |-> FALSE,
             value |-> [distance_meters |-> distance.value,
                        is_adjacent |-> distance.value <= 50]]

\* Two points are asked about with a threshold, with the default
\* threshold, and through get_proximity_info.
Proximity(p, q, threshold) ==
    /\ calc = NoCalc
    /\ calc' = [fn |-> "is_immediate_vicinity", args |-> <<p, q, threshold>>,
                ret |-> <<is_immediate_vicinity(p[1], p[2], q[1], q[2], threshold),
                          is_immediate_vicinity(p[1], p[2], q[1], q[2], DefaultThreshold),
                          get_proximity_info(p[1], p[2], q[1], q[2])>>]
    /\ UNCHANGED <<cacheVars, fetchVars, serverVars, tools, pano>>

NextGeo ==
    \/ \E a \in DirectionArgs : RelativeDirection(a[1], a[2])
    \/ \E p \in GeoPoints, q \in GeoPoints : Distances(p, q)
    \/ \E p \in GeoPoints, q \in GeoPoints :
          \E threshold \in {0, DefaultThreshold,
                             calculate_haversine_distance(p[1], p[2], q[1], q[2]).value,
                             calculate_haversine_distance(p[1], p[2], q[1], q[2]).value + 1} :
              Proximity(p, q, threshold)

SpecGeo == InitCache /\ [][NextGeo]_vars

\* Sector k (0 = ahead, then clockwise in steps of 45 degrees) holds the
\* relative angles r with low < r <= high about its centre 45 k.
InSector(k, r) ==
    IF k = 0 THEN r <= 45 \/ r > FullTurn - 45
    ELSE 90 * k - 45 < r /\ r <= 90 * k + 45

\* C29: every relative angle r = (bearing - heading) mod 360 lies in
\* exactly one of the 8 sectors low < r <= high with centres 0, 45, ..., 315
\* (the first taking r <= 22.5 and r > 337.5), and get_relative_direction
\* returns the label of that sector: ahead, ahead-right, right, behind-right,
\* behind, behind-left, left, ahead-left.
C29_RelativeDirectionSectors ==
    calc.fn = "get_relative_direction" =>
        LET r == (calc.args[2] - calc.args[1]) % FullTurn
        IN /\ r \in 0..(FullTurn - 1)
           /\ Cardinality({k \in 0..7 : InSector(k, r)}) = 1
           /\ \A k \in 0..7 : InSector(k, r) => calc.ret = DirectionLabels[k + 1]

\* At a relative angle of exactly 67.5 degrees the answer is still
\* ahead-right.
C29_Witness ==
    /\ calc.fn = "get_relative_direction"
    /\ (calc.args[2] - calc.args[1]) % FullTurn = 135
    /\ calc.ret = DirectionLabels[2]

\* C30: the distance from a point to itself is 0, and the distance from a
\* to b is the distance from b to a, for all points a and b.
C30_DistanceZeroAndSymmetric ==
    calc.fn = "calculate_haversine_distance" =>
        /\ calc.ret[3] = [raised |-> FALSE, value |-> 0]
        /\ calc.ret[1] = calc.ret[2]

\* From 49 N 2 E to 34 S 58 W, and back, is between 10900 and 11000 km.
C30_Witness ==
    /\ calc.fn = "calculate_haversine_distance"
    /\ calc.args = <<<<49, 2>>, <<-34, -58>>>>
    /\ ~calc.ret[1].raised
    /\ calc.ret[1].value > 10900000
    /\ calc.ret[2].value < 11000000

\* C31: is_immediate_vicinity returns true iff the computed distance is at
\* most threshold_meters, the threshold itself included, 50 by default; and
\* is_adjacent of get_proximity_info is what is_immediate_vicinity returns
\* for the same points at the default threshold.
C31_VicinityThreshold ==
    calc.fn = "is_immediate_vicinity" =>
        LET p == calc.args[1]
            q == calc.args[2]
            distance == calculate_haversine_distance(p[1], p[2], q[1], q[2])
        IN /\ ~distance.raised
           /\ calc.ret[1] = [raised |-> FALSE, value |-> distance.value <= calc.args[3]]
           /\ calc.ret[2] = [raised |-> FALSE, value |-> distance.value <= 50]
           /\ ~calc.ret[3].raised
           /\ calc.ret[3].value.is_adjacent = calc.ret[2].value

\* Two different points exactly the threshold apart are in the vicinity,
\* yet not adjacent at the default threshold.
C31_Witness ==
    /\ calc.fn = "is_immediate_vicinity"
    /\ calc.args[1] # calc.args[2]
    /\ calc.ret[3].value.distance_meters = calc.args[3]
    /\ calc.args[3] > 5000
    /\ calc.ret[1].value
    /\ ~calc.ret[2].value
    /\ ~calc.ret[3].value.is_adjacent

\* ---------------------------------------------------------------- reads and the eviction order

C33_OverwriteKeepsOthers ==
    [][\A n \in DOMAIN caches :
          (IsCall("set", n) /\ last'.key \in Keys(caches[n].store)) =>
              /\ Keys(caches'[n].store) = Keys(caches[n].store)
              /\ Len(caches'[n].store) = Len(caches[n].store)
      ]_vars

\* ---------------------------------------------------------------- closing the pooled client

\* C34: however close_http_client interleaves with get_http_client calls,
\* when it returns every client made so far is closed, and the reference
\* it clears points to a closed client: no open client is left without the
\* shared reference.
C34_CloseLeavesNoOpenClient ==
    [][(http.closing # NoClient /\ http'.closing = NoClient) =>
          /\ http.current \in http.closed
          /\ \A c \in 1..http'.made : c \in http'.closed
      ]_vars

\* ---------------------------------------------------------------- what a hit returns

\* The key a tool call addresses: its coordinates and arguments as given.
KeyOfCall(call) == _make_key(call.lat, call.lng, call.kw)

\* C35: a hit of a cache-aware tool for key k returns the payload of an
\* earlier successful fetch made for the same view function and the same
\* key k, which is stored under k at that moment (so it was not evicted,
\* invalidated or cleared since) and is younger than the ttl; every stored
\* entry holds the successful result of a fetch for its own key.
C35_HitIsForSameKey ==
    /\ [](\A n \in DOMAIN caches : \A e \in Entries(caches[n].store) :
             /\ frames[e.value].pc = "done"
             /\ Deref(e.value).success
             /\ CacheOf(frames[e.value].call.kind) = n
             /\ KeyOfCall(frames[e.value].call) = e.key)
    /\ [][\A w \in ToolIds :
             (tools[w].pc = "idle" /\ tools'[w].pc = "returned") =>
                 LET call == tools'[w].call
                     f == tools'[w].ret
                     c == caches[CacheOf(call.kind)]
                 IN /\ f # w
                    /\ frames[f].pc = "done"
                    /\ frames[f].result.success
                    /\ frames[f].call.kind = call.kind
                    /\ KeyOfCall(frames[f].call) = KeyOfCall(call)
                    /\ \E e \in Entries(c.store) :
                          /\ e.key = KeyOfCall(call)
                          /\ e.value = f
                          /\ now - e.ts < c.ttl
         ]_vars

\* Half an hour after an overhead view was fetched and stored, a second
\* call for it is served from the cache.
C35_Witness ==
    \E w1, w2 \in ToolIds :
        /\ now = StreetviewTtl
        /\ tools[w1].pc = "returned" /\ tools[w1].ret = w1
        /\ tools[w2].pc = "returned" /\ tools[w2].ret = w1
        /\ tools[w2].call.kind = "overhead"
        /\ \E e \in Entries(caches["overhead"].store) : e.value = w1 /\ e.ts = 0

\* ---------------------------------------------------------------- calls with the same effective request

\* C36: a tool call whose arguments normalize to the request of an earlier
\* successful call of the same tool, stored less than the ttl ago, is a
\* hit on that entry and issues no request.
C36_SameRequestSameEntry ==
    [][\A w \in ToolIds :
          (tools[w].pc = "idle" /\ tools'[w].pc # "idle") =>
              LET call == tools'[w].call
                  c == caches[CacheOf(call.kind)]
              IN \A e \in Entries(c.store) :
                    (/\ frames[e.value].call.kind = call.kind
                     /\ RequestParams(frames[e.value].call) = RequestParams(call)
                     /\ now - e.ts < c.ttl) =>
                        /\ tools'[w].pc = "returned"
                        /\ tools'[w].ret = e.value
                        /\ frames'[w] = IdleFrame
      ]_vars

\* ---------------------------------------------------------------- panoramic directions

\* C37: in a panoramic result every successful view carries the direction
\* of its leg (North, East, South, West for headings 0, 90, 180, 270), and
\* that direction is the facing label get_street_view put in the view's
\* parameters for the leg's heading.
C37_DirectionIsFacing ==
    (DOMAIN pano # {} /\ pano.pc = "returned") =>
        \A l \in Legs :
            LET v == pano.ret.views[l]
            IN v.success =>
                  /\ v.direction = Headings[l][2]
                  /\ v.parameters.heading = Headings[l][1]
                  /\ v.parameters.facing = v.direction

\* The east and west views of a returned panoramic call are successes,
\* tagged East and West.
C37_Witness ==
    /\ DOMAIN pano # {}
    /\ pano.pc = "returned"
    /\ pano.ret.views[2].success /\ pano.ret.views[2].parameters.facing = "East"
    /\ pano.ret.views[4].success /\ pano.ret.views[4].direction = "West"

\* ---------------------------------------------------------------- the declared image type

\* The type of the response body as it comes: what each view function
\* declares when it returns the body untouched.
RawMime(kind) == IF kind = "overhead" THEN "image/png" ELSE "image/jpeg"

\* C38: the mime_type of a successful single-view result is the encoding
\* of the bytes it returns: image/jpeg for bytes the compression step
\* re-encoded, the type of the response body for bytes returned as they
\* came, also when compression was asked for and fell back to them.
C38_MimeMatchesBytes ==
    [][\A f \in DOMAIN frames, o \in Outcomes, pil \in PilOutcomes :
          (Respond(f, o, pil) /\ Succeeded(o)) =>
              frames'[f].result.mime_type =
                  IF frames[f].call.compress /\ pil = "ok"
                  THEN "image/jpeg"
                  ELSE RawMime(frames[f].call.kind)
      ]_vars

\* ---------------------------------------------------------------- correlation ids

\* str(uuid.uuid4())[:8]: every block draws an id of its own.
CorrelationIdOf(b) == "id-" \o ToString(b)

\* CorrelationIdFilter.filter: the record gets the filter's id, or "N/A"
\* when there is none.
filter(correlation_id) == IF correlation_id = None THEN "N/A" ELSE correlation_id

\* logger.info(...) on the omni_visual logger, from block b or from code
\* outside any block (b = Outside): the record passes the filter.
Emit(log, msg, b) ==
    [log EXCEPT !.record = [msg |-> msg, by |-> b,
                            correlation_id |-> filter(log.filter)]]

\* traced_request up to its yield: the id is drawn and set on the filter,
\* "Starting" is logged.
Enter(b) ==
    /\ logging.pc[b] = "out"
    /\ logging' = Emit([logging EXCEPT !.filter = CorrelationIdOf(b),
                                       !.pc[b] = "in"],
                       "Starting", b)
    /\ UNCHANGED <<cacheVars, fetchVars, callerVars, session>>

\* The body of the with statement logs, between two of its suspension
\* points.
BodyLog(b) ==
    /\ logging.pc[b] = "in"
    /\ logging' = Emit(logging, "body", b)
    /\ UNCHANGED <<cacheVars, fetchVars, callerVars, session>>

\* traced_request's finally, reached when the body returns or raises:
\* "Completed" is logged, then the filter's id is set to None.
Exit(b, raised) ==
    /\ logging.pc[b] = "in"
    /\ logging' = [Emit(logging, "Completed", b) EXCEPT
                       !.filter = None,
                       !.pc[b] = IF raised THEN "raised" ELSE "exited"]
    /\ UNCHANGED <<cacheVars, fetchVars, callerVars, session>>

\* Code outside any block logs.
OutsideLog ==
    /\ logging' = Emit(logging, "outside", Outside)
    /\ UNCHANGED <<cacheVars, fetchVars, callerVars, session>>

NextLogging ==
    \/ \E b \in Blocks : Enter(b)
    \/ \E b \in Blocks : BodyLog(b)
    \/ \E b \in Blocks, raised \in BOOLEAN : Exit(b, raised)
    \/ OutsideLog

SpecLogging == InitCache /\ [][NextLogging]_vars

\* C39: a record emitted by a traced_request block carries that block's
\* own correlation id, also while other blocks are active; a record
\* emitted outside any block carries the id of no block that has exited.
C39_RecordsCarryOwnId ==
    /\ logging.record.by \in Blocks =>
          logging.record.correlation_id = CorrelationIdOf(logging.record.by)
    /\ logging.record.by = Outside =>
          \A b \in Blocks :
              logging.pc[b] \in {"exited", "raised"} =>
                  logging.record.correlation_id # CorrelationIdOf(b)

\* The second half of C39 alone: after a block exits, its id is on no
\* record of code outside any block.
ExitedIdIsGone ==
    logging.record.by = Outside =>
        \A b \in Blocks :
            logging.pc[b] \in {"exited", "raised"} =>
                logging.record.correlation_id # CorrelationIdOf(b)

\* ---------------------------------------------------------------- the websocket session

\* What a client message can say its mime_type is.
MimeTypes == {"text/plain", "audio/pcm", "image/jpeg"}

\* The socket's peer goes away.
ClientDisconnects ==
    /\ session.socket = "open"
    /\ session' = [session EXCEPT !.socket = "closed"]
    /\ UNCHANGED <<cacheVars, fetchVars, callerVars, logging>>

\* client_to_agent_messaging, one turn of its loop with a message
\* received: text and audio go to the queue, anything else is logged and
\* dropped.
client_to_agent_messaging(mime_type) ==
    /\ session.client_to_agent = "running"
    /\ session.socket = "open"
    /\ Len(session.queue) < MaxMessages
    /\ session' = IF mime_type \in {"text/plain", "audio/pcm"}
                  THEN [session EXCEPT !.queue = Append(@, mime_type)]
                  ELSE session
    /\ UNCHANGED <<cacheVars, fetchVars, callerVars, logging>>

\* client_to_agent_messaging, receive_text raising WebSocketDisconnect:
\* the loop breaks and the task is done, without an exception.
client_to_agent_disconnected ==
    /\ session.client_to_agent = "running"
    /\ session.socket = "closed"
    /\ session' = [session EXCEPT !.client_to_agent = "done"]
    /\ UNCHANGED <<cacheVars, fetchVars, callerVars, logging>>

\* agent_to_client_messaging, one turn of its loop with an event that has
\* something to send: send_text on a closed socket raises, which the
\* except inside the loop logs, and the loop goes on.
agent_to_client_messaging ==
    /\ session.agent_to_client = "running"
    /\ session.stream = "live"
    /\ session.sent < MaxMessages
    /\ session' = IF session.socket = "open"
                  THEN [session EXCEPT !.sent = @ + 1]
                  ELSE [session EXCEPT !.send_failed = TRUE]
    /\ UNCHANGED <<cacheVars, fetchVars, callerVars, logging>>

\* The live event stream ends, or raises: the async for of
\* agent_to_client_messaging is outside its try, so the task is done, or
\* done with the exception.
agent_to_client_over(how) ==
    /\ session.agent_to_client = "running"
    /\ session.stream = "live"
    /\ session' = [session EXCEPT !.stream = how,
                                  !.agent_to_client = IF how = "raised" THEN "raised" ELSE "done"]
    /\ UNCHANGED <<cacheVars, fetchVars, callerVars, logging>>

\* asyncio.wait(..., return_when=FIRST_EXCEPTION) returns when a task has
\* ended with an exception or when both are done.
WaitIsOver(s) ==
    \/ s.agent_to_client = "raised"
    \/ s.agent_to_client = "done" /\ s.client_to_agent = "done"

\* websocket_endpoint after asyncio.wait: the queue is closed.
websocket_endpoint ==
    /\ session.endpoint = "waiting"
    /\ WaitIsOver(session)
    /\ session' = [session EXCEPT !.endpoint = "returned", !.closed = TRUE]
    /\ UNCHANGED <<cacheVars, fetchVars, callerVars, logging>>

NextSession ==
    \/ ClientDisconnects
    \/ \E mime_type \in MimeTypes : client_to_agent_messaging(mime_type)
    \/ client_to_agent_disconnected
    \/ agent_to_client_messaging
    \/ \E how \in {"ended", "raised"} : agent_to_client_over(how)
    \/ websocket_endpoint

SpecSession == InitCache /\ [][NextSession]_vars

\* The event loop runs a task that can go on: a pending receive_text is
\* woken by the disconnect, and asyncio.wait returns once its condition
\* holds. When the client goes away, and when the live event stream ends,
\* is up to the peer and to the model's connection.
SpecSessionLive ==
    /\ SpecSession
    /\ WF_vars(client_to_agent_disconnected)
    /\ WF_vars(websocket_endpoint)

\* C40: once client_to_agent_messaging has ended on the client's
\* disconnect, websocket_endpoint eventually closes the session's
\* live_request_queue, whether or not the live event stream has ended and
\* whether or not a send to the closed socket has raised.
C40_DisconnectClosesQueue ==
    (session.client_to_agent = "done") ~> session.closed

\* What does hold: the queue is closed once the client is gone and the
\* live event stream is over as well.
ClosedOnceStreamIsOver ==
    (session.client_to_agent = "done" /\ session.stream # "live") ~> session.closed

====
